---- MODULE Spec2Model ----
(***************************************************************************)
(* DXX-Redux/Rebirth UDP game tracker (the tracker with the event store    *)
(* and the archive handoff): registry of active games, per-game event      *)
(* store, register-ACK timers, poll and cleanup ticks, WebSocket fan-out.  *)
(***************************************************************************)
EXTENDS Integers, Sequences, FiniteSets, TLC

\* ---------------------------------------------------------------------
\* Program constants
\* ---------------------------------------------------------------------
gameTimeout == 300000
KillFeedCap == 100
ChatCap == 200
TimelineCap == 500
MinGamePort == 1024
LiteLen == 73
OP_MDATA_PNORM == 19
OP_MDATA_PNEEDACK == 20
OP_OBSDATA == 25
OP_REGISTER_ACK == 21
OP_LITE_REQ == 4
OP_LITE == 5
OP_FULL == 3
OP_GAME_LIST_REQUEST == 2
OP_GAME_LIST_RESPONSE == 22
MULTI_KILL == 3
MULTI_PLAYER_EXPLODE == 5
MULTI_MESSAGE == 6
MULTI_QUIT == 7
MULTI_OBS_MESSAGE == 61
MULTI_POSITION == 0
WS_OPEN == 1

\* ---------------------------------------------------------------------
\* Bounds of the model
\* ---------------------------------------------------------------------
MaxLives == 2        \* record objects created by REGISTER in one run
MaxNow == 600001     \* the clock stops advancing here
MaxSteps == 4        \* packets, ticks and client events handled in one run (Spec)
MaxClients == 1      \* WebSocket clients connected at once
MaxAppends == 503    \* packets handled in one run (SpecEvents)
MixPrefix == 2       \* SpecEvents: packets of freely mixed opcodes before the bursts
BurstLen == 201      \* SpecEvents: packets of one opcode in a row after the prefix

Ips == {1, 2}
GamePorts == {5000, 5001}
LowPorts == {80}
SrcPorts == {5000, 55000}
GameIds == {0, 1}
TimeSteps == {300000, 300001}
Slots == {0, 1}
\* the addresses games are announced for: host 1 runs games on two ports (and
\* tries a privileged one); host 2 sends packets but announces nothing
Hosted == {<<1, 5000>>, <<1, 5001>>, <<1, 80>>}

VARIABLES
  activeGames,   \* the registry Map, as the sequence of its values in insertion order
  gameEvents,    \* the event-store Map: key -> [killFeed, chat, timeline]
  wsClients,     \* readyState of every connected WebSocket client
  timers,        \* pending setTimeout closures of sendRegisterAck
  now,           \* Date.now()
  firebaseOn,    \* firebase.isEnabled()
  out,           \* datagrams sent by the handler that ran last
  wsOut,         \* WebSocket frames published by the handler that ran last
  hist,          \* per record object: what was sent and archived for it
  steps,         \* number of packets, ticks and client events handled so far
  gamelogEvents,   \* scraper/udp-tracker.js: events read from the local gamelog.txt
  gamelogSummary,  \* scraper/udp-tracker.js: the working summary (null before any event)
  localPlayerName, \* scraper/udp-tracker.js: identity bound to the local gamelog ("" is null)
  clientGamelogs,  \* scraper/udp-tracker.js: Map playerName -> uploaded events, in insertion order
  snapshot,        \* the live-games file as last written: listed keys and gamelog summary
  scraper,         \* scraper/index.js: the Firestore documents and the scrape() calls under way
  uploader,        \* scraper/gamelog-uploader.js: the file it follows, its queue and its requests
  dashboard        \* match key -> the game_new or game_removed frame last received by the open clients

\* the state of the textual gamelog streams
gvars == <<gamelogEvents, gamelogSummary, localPlayerName, clientGamelogs>>

\* the state of the programs that run beside the tracker
ovars == <<scraper, uploader, dashboard>>

vars == <<activeGames, gameEvents, wsClients, timers, now, firebaseOn,
          out, wsOut, hist, steps, gvars, snapshot, ovars>>

\* ---------------------------------------------------------------------
\* Map helpers (a JS Map iterates in insertion order; set() on an existing
\* key keeps its position, delete() + set() moves it to the end)
\* ---------------------------------------------------------------------
KeyOf(ip, port) == <<ip, port>>

SeqFilter(s, Keep(_)) ==
  LET F[i \in 0..Len(s)] ==
        IF i = 0 THEN <<>>
        ELSE IF Keep(s[i]) THEN Append(F[i-1], s[i]) ELSE F[i-1]
  IN F[Len(s)]

FirstIndex(s, P(_)) ==
  IF \E i \in 1..Len(s) : P(s[i])
  THEN CHOOSE i \in 1..Len(s) : P(s[i]) /\ \A j \in 1..(i-1) : ~P(s[j])
  ELSE 0

MapHas(m, key) == \E i \in 1..Len(m) : m[i].id = key
MapIndex(m, key) == FirstIndex(m, LAMBDA g : g.id = key)
MapGet(m, key) == m[MapIndex(m, key)]
MapDelete(m, key) == SeqFilter(m, LAMBDA g : g.id # key)
MapSet(m, key, g) ==
  IF MapHas(m, key) THEN [m EXCEPT ![MapIndex(m, key)] = g] ELSE Append(m, g)

\* log is not a field of the program: it keeps every entry appended to the
\* store, untrimmed, in append order
EmptyStore == [killFeed |-> <<>>, chat |-> <<>>, timeline |-> <<>>, log |-> <<>>]
EvHas(ev, key) == key \in DOMAIN ev
EvDelete(ev, key) == [k \in DOMAIN ev \ {key} |-> ev[k]]
EvSet(ev, key, s) == [k \in DOMAIN ev \cup {key} |-> IF k = key THEN s ELSE ev[k]]

Dgram(op, ip, port, proto) == [op |-> op, ip |-> ip, port |-> port, proto |-> proto]

OpenClients == {c \in 1..Len(wsClients) : wsClients[c] = WS_OPEN}

\* ---------------------------------------------------------------------
\* handleRegister
\* ---------------------------------------------------------------------
NewGame_Confirmed(life) ==
  [id |-> <<0, 0>>, ip |-> 0, port |-> 0, gameId |-> 0, registerPort |-> 0,
   lastSeen |-> 0, confirmed |-> TRUE, broadcasted |-> FALSE,
   playerCount |-> 0, players |-> <<>>, detailed |-> FALSE,
   startTime |-> steps + 1, life |-> life,
   version |-> 0, netgameProto |-> 0]
NewGame(life) ==
  [id |-> <<0, 0>>, ip |-> 0, port |-> 0, gameId |-> 0, registerPort |-> 0,
   lastSeen |-> 0, confirmed |-> FALSE, broadcasted |-> FALSE,
   playerCount |-> 0, players |-> <<>>, detailed |-> FALSE,
   startTime |-> steps + 1, life |-> life,
   version |-> 0, netgameProto |-> 0]

sendGameInfoLiteReq(g) == Dgram(OP_LITE_REQ, g.ip, g.port, 0)

NewHist(key, srcPort) ==
  [key |-> key, src |-> srcPort, decoded |-> FALSE, acks |-> 0, ackTo |-> {},
   archCalls |-> 0, saves |-> 0, fate |-> "alive", taught |-> 0]

\* lenOk: the packet is 14 or 15 bytes long
RegisterDropped_LengthOnly(lenOk, gamePort) == ~lenOk
RegisterDropped(lenOk, gamePort) == ~lenOk \/ gamePort < MinGamePort

\* the key holds a record announced under another game id
GameIdChanged_Always(m, key, gameId) == MapHas(m, key)
GameIdChanged(m, key, gameId) == MapHas(m, key) /\ MapGet(m, key).gameId # gameId

HandleRegister(ip, srcPort, lenOk, gamePort, gameId, version) ==
  /\ steps' = steps + 1
  /\ wsOut' = <<>>
  /\ UNCHANGED <<gameEvents, wsClients, timers, now, firebaseOn>>
  /\ IF RegisterDropped(lenOk, gamePort)
     THEN /\ out' = <<>>
          /\ UNCHANGED <<activeGames, hist>>
     ELSE LET key == KeyOf(ip, gamePort)
              stale == GameIdChanged(activeGames, key, gameId)
              m1 == IF stale THEN MapDelete(activeGames, key) ELSE activeGames
              isNew == ~MapHas(m1, key)
              g0 == IF isNew THEN NewGame(Len(hist) + 1) ELSE MapGet(m1, key)
              g == [g0 EXCEPT !.id = key, !.ip = ip, !.port = gamePort,
                              !.gameId = gameId, !.version = version,
                              !.registerPort = srcPort, !.lastSeen = now]
              h1 == IF stale
                    THEN [hist EXCEPT ![MapGet(activeGames, key).life].fate = "replaced"]
                    ELSE hist
          IN /\ isNew => Len(hist) < MaxLives
             /\ activeGames' = MapSet(m1, key, g)
             /\ out' = <<sendGameInfoLiteReq(g)>>
             /\ hist' = IF isNew THEN Append(h1, NewHist(key, srcPort))
                        ELSE IF ~g.confirmed THEN [h1 EXCEPT ![g.life].src = srcPort]
                        ELSE h1

Register ==
  \E ip \in Ips, srcPort \in SrcPorts, lenOk \in BOOLEAN,
     gamePort \in GamePorts \cup LowPorts, gameId \in GameIds :
       /\ <<ip, gamePort>> \in Hosted
       /\ (~lenOk => gamePort = 5000 /\ gameId = 1 /\ srcPort = 5000)
       /\ (gamePort \in LowPorts => gameId = 1 /\ srcPort = 5000)
       /\ HandleRegister(ip, srcPort, lenOk, gamePort, gameId, 1)

\* ---------------------------------------------------------------------
\* Info responses (opcode 5 lite, opcode 3 full)
\* ---------------------------------------------------------------------
\* of the lite fields the model keeps the game-id and the player count
LitePkt(len, gid, n) ==
  [op |-> OP_LITE, kind |-> IF len = LiteLen THEN "lite" ELSE "badlen",
   gameId |-> gid, cur |-> n, slots |-> <<>>, kills |-> <<>>]
\* kind of a full packet, by its length: "short" (too short for the version
\* header and the 12-slot player block), "mid" (settings area but no score
\* block), "complete" (everything up to player_score[8])
FullPkt(kind, cur, slots, kills) ==
  [op |-> OP_FULL, kind |-> kind, gameId |-> 0, cur |-> cur,
   slots |-> slots, kills |-> kills]

SlotA == [name |-> "a", connected |-> 1]
SlotB == [name |-> "b", connected |-> 1]
SlotNone == [name |-> "", connected |-> 0]

LitePackets ==
  {LitePkt(LiteLen, gid, n) : gid \in GameIds, n \in {0, 2}}
    \cup {LitePkt(LiteLen - 1, 1, 2)}
FullPackets ==
  {FullPkt("short", 0, <<>>, <<>>), FullPkt("mid", 1, <<SlotA, SlotB>>, <<>>)}
    \cup {FullPkt("complete", 2, sl, <<1, 2>>) :
            sl \in {<<SlotA, SlotB>>, <<SlotNone, SlotB>>}}

LiteName(i) == IF i = 1 THEN "Player 1" ELSE IF i = 2 THEN "Player 2" ELSE "Player N"
Player(name, kills, deaths, suicides) ==
  [name |-> name, kills |-> kills, deaths |-> deaths, suicides |-> suicides]

parseGameInfoLite(pkt, g) ==
  IF g.gameId # 0 /\ pkt.gameId # g.gameId
  THEN g
  ELSE [g EXCEPT !.playerCount = pkt.cur, !.gameId = pkt.gameId,
                 !.players = [i \in 1..pkt.cur |-> Player(LiteName(i), 0, 0, 0)]]

\* the identifier gamelogSummary is read in this file but declared nowhere in
\* it: evaluating it throws a ReferenceError
gamelogSummaryDeclared == FALSE

FullPlayers(pkt) ==
  LET present == SeqFilter(pkt.slots, LAMBDA sl : sl.name # "" /\ sl.connected > 0)
  IN [i \in 1..Len(present) |-> Player(present[i].name, pkt.kills[i], 0, 0)]

parseGameInfoFull(pkt, g) ==
  IF pkt.kind = "short"
  THEN g
  ELSE LET g1 == [g EXCEPT !.playerCount = IF pkt.cur > 0 THEN pkt.cur ELSE @]
           players == FullPlayers(pkt)
       IN IF pkt.kind = "mid" /\ ~gamelogSummaryDeclared
          THEN g1
          ELSE [g1 EXCEPT !.players = IF Len(players) > 0 THEN players ELSE @,
                          !.playerCount = IF Len(players) > 0 THEN Len(players) ELSE @,
                          !.detailed = TRUE]

\* index in the registry of the record an info response is correlated to, or 0
FindGame_IpOnly(m, ip, port) == FirstIndex(m, LAMBDA e : e.ip = ip)
FindGame(m, ip, port) ==
  LET exact == FirstIndex(m, LAMBDA e : e.ip = ip /\ e.port = port)
  IN IF exact # 0 THEN exact ELSE FirstIndex(m, LAMBDA e : e.ip = ip)

\* sendRegisterAck: fire(0) now, fire(1) and fire(2) on timers; the address
\* is read from the record when the function is called
AckDgram_GamePort(g) == Dgram(OP_REGISTER_ACK, g.ip, g.port, 0)
AckDgram(g) == Dgram(OP_REGISTER_ACK, g.ip, g.registerPort, 0)
AckTimers(g) == {[n |-> n, ip |-> g.ip, port |-> g.registerPort, life |-> g.life] : n \in {1, 2}}

HistAck(h, life, ip, port) ==
  [h EXCEPT ![life].acks = @ + 1, ![life].ackTo = @ \cup {<<ip, port>>}]

\* the parser got past its length and game-id checks and wrote to the record
Decoded(pkt, g) ==
  IF pkt.op = OP_LITE THEN ~(g.gameId # 0 /\ pkt.gameId # g.gameId)
  ELSE pkt.kind # "short"

\* broadcastGameUpdate: "return" with no clients, otherwise the message is
\* built, which reads gamelogSummary
broadcastGameUpdateThrows == Len(wsClients) > 0 /\ ~gamelogSummaryDeclared
broadcastGameUpdate(g, isNew) ==
  IF Len(wsClients) = 0 \/ broadcastGameUpdateThrows
  THEN <<>>
  ELSE <<[type |-> IF isNew THEN "game_new" ELSE "game_update", id |-> g.id,
          rcpt |-> OpenClients]>>

HandleGameInfoResponse(ip, srcPort, pkt) ==
  LET i == FindGame(activeGames, ip, srcPort) IN
  /\ steps' = steps + 1
  /\ UNCHANGED <<gameEvents, wsClients, now, firebaseOn>>
  /\ IF i = 0 \/ (pkt.op = OP_LITE /\ pkt.kind # "lite")
     THEN /\ out' = <<>>
          /\ wsOut' = <<>>
          /\ UNCHANGED <<activeGames, timers, hist>>
     ELSE LET g0 == activeGames[i]
              g1 == IF pkt.op = OP_LITE THEN parseGameInfoLite(pkt, g0)
                    ELSE parseGameInfoFull(pkt, g0)
              first == ~g1.confirmed
              g2 == [g1 EXCEPT !.confirmed = TRUE, !.lastSeen = now]
              g3 == IF broadcastGameUpdateThrows THEN g2
                    ELSE [g2 EXCEPT !.broadcasted = TRUE]
          IN /\ activeGames' = [activeGames EXCEPT ![i] = g3]
             /\ out' = IF first THEN <<AckDgram(g1)>> ELSE <<>>
             /\ timers' = IF first THEN timers \cup AckTimers(g1) ELSE timers
             /\ hist' = LET h1 == [hist EXCEPT ![g0.life].decoded = @ \/ Decoded(pkt, g0)]
                        IN IF first
                           THEN HistAck(h1, g1.life, AckDgram(g1).ip, AckDgram(g1).port)
                           ELSE h1
             /\ wsOut' = broadcastGameUpdate(g2, ~g2.broadcasted)

InfoResponse ==
  \E ip \in Ips, srcPort \in GamePorts, pkt \in LitePackets \cup FullPackets :
     /\ <<ip, srcPort>> \in Hosted
     /\ HandleGameInfoResponse(ip, srcPort, pkt)

\* a timer of sendRegisterAck expires: fire(1) before fire(2)
FireAck_IfAlive ==
  \E t \in timers :
     LET i == FirstIndex(activeGames, LAMBDA g : g.life = t.life)
         live == i # 0 /\ activeGames[i].registerPort = t.port
     IN /\ t.n = 2 => ~\E u \in timers : u.life = t.life /\ u.n = 1
        /\ timers' = timers \ {t}
        /\ out' = IF live THEN <<Dgram(OP_REGISTER_ACK, t.ip, t.port, 0)>> ELSE <<>>
        /\ hist' = IF live THEN HistAck(hist, t.life, t.ip, t.port) ELSE hist
        /\ wsOut' = <<>>
        /\ UNCHANGED <<activeGames, gameEvents, wsClients, now, firebaseOn, steps>>
FireAck ==
  \E t \in timers :
     /\ t.n = 2 => ~\E u \in timers : u.life = t.life /\ u.n = 1
     /\ timers' = timers \ {t}
     /\ out' = <<Dgram(OP_REGISTER_ACK, t.ip, t.port, 0)>>
     /\ hist' = HistAck(hist, t.life, t.ip, t.port)
     /\ wsOut' = <<>>
     /\ UNCHANGED <<activeGames, gameEvents, wsClients, now, firebaseOn, steps>>

\* ---------------------------------------------------------------------
\* Death: archiveGameToHistory, handleUnregister, cleanupDeadGames
\* ---------------------------------------------------------------------
Archivable(g) == g.confirmed /\ Len(g.players) > 0

\* <<gameEvents, hist>> after archiveGameToHistory(g)
archiveGameToHistory_Unconditional(ev, h, g) ==
  <<EvDelete(ev, g.id),
    IF firebaseOn THEN [h EXCEPT ![g.life].archCalls = @ + 1, ![g.life].saves = @ + 1]
    ELSE [h EXCEPT ![g.life].archCalls = @ + 1]>>

archiveGameToHistory(ev, h, g) ==
  LET h1 == [h EXCEPT ![g.life].archCalls = @ + 1] IN
  IF ~Archivable(g)
  THEN <<ev, h1>>
  ELSE <<EvDelete(ev, g.id),
         IF firebaseOn THEN [h1 EXCEPT ![g.life].saves = @ + 1] ELSE h1>>

broadcastGameRemoval(id) ==
  IF Len(wsClients) = 0 THEN <<>>
  ELSE <<[type |-> "game_removed", id |-> id, rcpt |-> OpenClients]>>

UnregisterMatch_AnyHost(m, ip, gameId) == FirstIndex(m, LAMBDA g : g.gameId = gameId)
UnregisterMatch(m, ip, gameId) == FirstIndex(m, LAMBDA g : g.gameId = gameId /\ g.ip = ip)

HandleUnregister(ip, srcPort, gameId) ==
  LET i == UnregisterMatch(activeGames, ip, gameId) IN
  /\ steps' = steps + 1
  /\ out' = <<>>
  /\ UNCHANGED <<wsClients, timers, now, firebaseOn>>
  /\ IF i = 0
     THEN /\ wsOut' = <<>>
          /\ UNCHANGED <<activeGames, gameEvents, hist>>
     ELSE LET g == activeGames[i]
              arch == archiveGameToHistory(gameEvents, hist, g)
          IN /\ gameEvents' = arch[1]
             /\ hist' = [arch[2] EXCEPT ![g.life].fate = "unregistered"]
             /\ activeGames' = MapDelete(activeGames, g.id)
             /\ wsOut' = broadcastGameRemoval(g.id)

Unregister ==
  \E ip \in Ips, srcPort \in SrcPorts, gameId \in GameIds :
     HandleUnregister(ip, srcPort, gameId)

IsDead_AtTimeout(g, t) == t - g.lastSeen >= gameTimeout
IsDead(g, t) == t - g.lastSeen > gameTimeout

\* the dead list is archived and removed in registry order
RECURSIVE ReapAll(_, _, _, _, _)
ReapAll(dead, m, ev, h, frames) ==
  IF dead = <<>>
  THEN <<m, ev, h, frames>>
  ELSE LET g == Head(dead)
           arch == archiveGameToHistory(ev, h, g)
       IN ReapAll(Tail(dead), MapDelete(m, g.id), arch[1],
                  [arch[2] EXCEPT ![g.life].fate = "reaped"],
                  frames \o broadcastGameRemoval(g.id))

cleanupDeadGames ==
  LET dead == SeqFilter(activeGames, LAMBDA g : IsDead(g, now))
      r == ReapAll(dead, activeGames, gameEvents, hist, <<>>)
  IN /\ activeGames' = r[1]
     /\ gameEvents' = r[2]
     /\ hist' = r[3]
     /\ wsOut' = r[4]
     /\ out' = <<>>
     /\ steps' = steps + 1
     /\ UNCHANGED <<wsClients, timers, now, firebaseOn>>

\* ---------------------------------------------------------------------
\* Event packets: GAMELOG-KILL (31), GAMELOG-CHAT (32), MDATA (19, 20, 25)
\* ---------------------------------------------------------------------
\* display name <<name, n>>: n = 0 for a unique callsign, the 1-based order
\* among the slots of the same callsign otherwise; <<"Player", pnum>> for a
\* slot the table does not have
getUniquePlayerName(players, pnum) ==
  IF pnum + 1 > Len(players)
  THEN <<"Player", pnum>>
  ELSE LET name == players[pnum + 1].name
           dupes == {i \in 1..Len(players) : players[i].name = name}
       IN IF Cardinality(dupes) <= 1 THEN <<name, 0>>
          ELSE <<name, Cardinality({i \in dupes : i <= pnum + 1})>>

\* unshift + pop: newest first, the last (oldest) entry goes on overflow
PushFront_LateTrim(s, e, cap) ==
  LET s1 == <<e>> \o s IN IF Len(s1) > cap + 1 THEN SubSeq(s1, 1, Len(s1) - 1) ELSE s1
PushFront(s, e, cap) ==
  LET s1 == <<e>> \o s IN IF Len(s1) > cap THEN SubSeq(s1, 1, Len(s1) - 1) ELSE s1
\* push + shift: oldest first, the first (oldest) entry goes on overflow
PushBack_DropNewest(s, e, cap) == IF Len(s) >= cap THEN s ELSE Append(s, e)
PushBack(s, e, cap) ==
  LET s1 == Append(s, e) IN IF Len(s1) > cap THEN Tail(s1) ELSE s1

StoreOf(ev, key) == IF EvHas(ev, key) THEN ev[key] ELSE EmptyStore

AddKill(st, e) ==
  [st EXCEPT !.killFeed = PushFront(@, e, KillFeedCap),
             !.timeline = PushBack(@, e, TimelineCap), !.log = Append(@, e)]
AddChat(st, e) ==
  [st EXCEPT !.chat = PushBack(@, e, ChatCap),
             !.timeline = PushBack(@, e, TimelineCap), !.log = Append(@, e)]
AddTimeline(st, e) ==
  [st EXCEPT !.timeline = PushBack(@, e, TimelineCap), !.log = Append(@, e)]

\* seq is the arrival order of the packet (the entry's wall-clock timestamp)
Event(type, a, b, who, whom) ==
  [type |-> type, seq |-> steps + 1, a |-> a, b |-> b, who |-> who, whom |-> whom]

KillStats_SuicideAlsoKill(players, killerId, killedId) ==
  IF killerId + 1 > Len(players) \/ killedId + 1 > Len(players)
  THEN players
  ELSE IF killerId = killedId
       THEN [players EXCEPT ![killerId + 1].suicides = @ + 1,
                            ![killerId + 1].deaths = @ + 1,
                            ![killerId + 1].kills = @ + 1]
       ELSE [players EXCEPT ![killerId + 1].kills = @ + 1,
                            ![killedId + 1].deaths = @ + 1]

KillStats(players, killerId, killedId) ==
  IF killerId + 1 > Len(players) \/ killedId + 1 > Len(players)
  THEN players
  ELSE IF killerId = killedId
       THEN [players EXCEPT ![killerId + 1].suicides = @ + 1,
                            ![killerId + 1].deaths = @ + 1]
       ELSE [players EXCEPT ![killerId + 1].kills = @ + 1,
                            ![killedId + 1].deaths = @ + 1]

\* the record a gamelog packet belongs to: the first one, in registry order,
\* whose host IP is the packet's source IP (the source port is not read)
GamelogGame_AnyHost(m, ip) == IF Len(m) > 0 THEN 1 ELSE 0
GamelogGame(m, ip) == FirstIndex(m, LAMBDA g : g.ip = ip)

HandleGamelogKill(ip, lenOk, killerId, killedId) ==
  LET i == GamelogGame(activeGames, ip) IN
  /\ steps' = steps + 1
  /\ out' = <<>>
  /\ wsOut' = <<>>
  /\ UNCHANGED <<wsClients, timers, now, firebaseOn, hist>>
  /\ IF ~lenOk \/ i = 0
     THEN UNCHANGED <<activeGames, gameEvents>>
     ELSE LET g == activeGames[i]
              st == StoreOf(gameEvents, g.id)
              e == Event("kill", killerId, killedId,
                         getUniquePlayerName(g.players, killerId),
                         getUniquePlayerName(g.players, killedId))
          IN /\ gameEvents' = EvSet(gameEvents, g.id, AddKill(st, e))
             /\ activeGames' = [activeGames EXCEPT
                   ![i].players = KillStats(@, killerId, killedId)]

HandleGamelogChat(ip, lenOk, hasText, playerId) ==
  LET i == GamelogGame(activeGames, ip) IN
  /\ steps' = steps + 1
  /\ out' = <<>>
  /\ wsOut' = <<>>
  /\ UNCHANGED <<activeGames, wsClients, timers, now, firebaseOn, hist>>
  /\ IF ~lenOk \/ ~hasText \/ i = 0
     THEN UNCHANGED gameEvents
     ELSE LET g == activeGames[i]
              st == StoreOf(gameEvents, g.id)
              e == Event("chat", playerId, 0, getUniquePlayerName(g.players, playerId), <<"", 0>>)
          IN gameEvents' = EvSet(gameEvents, g.id, AddChat(st, e))

\* parseMULTIMessage builds every event with the shorthand property
\* "timestamp", an identifier that is not in scope in that function: the
\* ReferenceError is caught by its own try/catch before anything is appended
timestampInScope == FALSE

parseMULTIMessage(msgType, senderNum, a, b, players, st) ==
  IF ~timestampInScope THEN st
  ELSE IF msgType = MULTI_KILL
  THEN AddKill(st, Event("kill", a, b, getUniquePlayerName(players, a),
                         getUniquePlayerName(players, b)))
  ELSE IF msgType = MULTI_MESSAGE
  THEN AddChat(st, Event("chat", a, 0, getUniquePlayerName(players, a), <<"", 0>>))
  ELSE IF msgType = MULTI_OBS_MESSAGE
  THEN AddChat(st, Event("chat", a, 0, <<"Observer", 0>>, <<"", 0>>))
  ELSE IF msgType = MULTI_PLAYER_EXPLODE
  THEN AddTimeline(st, Event("death", a, 0, getUniquePlayerName(players, a), <<"", 0>>))
  ELSE IF msgType = MULTI_QUIT
  THEN AddTimeline(st, Event("quit", a, 0, getUniquePlayerName(players, a), <<"", 0>>))
  ELSE st

\* the record an MDATA packet belongs to: by IP and token, else by IP alone
MdataGame(m, ip, token) ==
  LET exact == FirstIndex(m, LAMBDA g : g.ip = ip /\ g.gameId = token)
  IN IF exact # 0 THEN exact ELSE FirstIndex(m, LAMBDA g : g.ip = ip)

HandleMDATA(ip, opcode, lenOk, token, msgType, a, b) ==
  LET i == MdataGame(activeGames, ip, token) IN
  /\ steps' = steps + 1
  /\ out' = <<>>
  /\ wsOut' = <<>>
  /\ UNCHANGED <<activeGames, wsClients, timers, now, firebaseOn, hist>>
  /\ IF ~lenOk \/ i = 0
     THEN UNCHANGED gameEvents
     ELSE LET g == activeGames[i]
          IN gameEvents' = EvSet(gameEvents, g.id,
               parseMULTIMessage(msgType, 0, a, b, g.players, StoreOf(gameEvents, g.id)))

GamelogKill ==
  \E ip \in Ips, lenOk \in BOOLEAN, killerId \in Slots, killedId \in Slots :
     /\ (~lenOk => killerId = 0 /\ killedId = 0)
     /\ HandleGamelogKill(ip, lenOk, killerId, killedId)

GamelogChat ==
  \E ip \in Ips, lenOk \in BOOLEAN, hasText \in BOOLEAN :
     /\ (~lenOk => hasText)
     /\ HandleGamelogChat(ip, lenOk, hasText, 0)

MdataTypes == {MULTI_KILL, MULTI_MESSAGE, MULTI_OBS_MESSAGE, MULTI_PLAYER_EXPLODE,
               MULTI_QUIT, MULTI_POSITION}

MDATA ==
  \E ip \in Ips, opcode \in {OP_MDATA_PNORM, OP_MDATA_PNEEDACK, OP_OBSDATA},
     lenOk \in BOOLEAN, token \in GameIds, msgType \in MdataTypes :
     /\ (~lenOk => token = 1 /\ msgType = MULTI_KILL /\ opcode = OP_MDATA_PNORM)
     \* every message type under opcode 19 with a matching token; the other
     \* opcodes and the other token with one message type
     /\ (opcode # OP_MDATA_PNORM \/ token # 1 => msgType = MULTI_KILL)
     /\ HandleMDATA(ip, opcode, lenOk, token, msgType, 0, 1)

\* ---------------------------------------------------------------------
\* Clock and WebSocket clients
\* ---------------------------------------------------------------------
\* the ACK timers (25 ms, 50 ms) expire before the clock moves by a step
Tick ==
  \E d \in TimeSteps :
     /\ timers = {}
     /\ now + d <= MaxNow
     /\ now' = now + d
     /\ out' = <<>>
     /\ wsOut' = <<>>
     /\ steps' = steps + 1
     /\ UNCHANGED <<activeGames, gameEvents, wsClients, timers, firebaseOn, hist>>

\* on connection: the socket joins the list and is sent the init frame
WsAccept ==
  /\ wsClients' = Append(wsClients, WS_OPEN)
  /\ wsOut' = <<[type |-> "init", id |-> <<0, 0>>, rcpt |-> {Len(wsClients) + 1}]>>
  /\ out' = <<>>
  /\ steps' = steps + 1
  /\ UNCHANGED <<activeGames, gameEvents, timers, now, firebaseOn, hist>>

WsConnect == Len(wsClients) < MaxClients /\ WsAccept

\* a client starts its closing handshake: until the close event removes it
\* from the list its readyState is 2 (CLOSING)
WS_CLOSING == WS_OPEN + 1
WsClosing ==
  \E c \in 1..Len(wsClients) :
     /\ wsClients[c] = WS_OPEN
     /\ wsClients' = [wsClients EXCEPT ![c] = WS_CLOSING]
     /\ wsOut' = <<>>
     /\ out' = <<>>
     /\ steps' = steps + 1
     /\ UNCHANGED <<activeGames, gameEvents, timers, now, firebaseOn, hist>>

WsClose ==
  \E c \in 1..Len(wsClients) :
     /\ wsClients' = [j \in 1..(Len(wsClients) - 1) |->
                        IF j < c THEN wsClients[j] ELSE wsClients[j + 1]]
     /\ wsOut' = <<>>
     /\ out' = <<>>
     /\ steps' = steps + 1
     /\ UNCHANGED <<activeGames, gameEvents, timers, now, firebaseOn, hist>>

\* ---------------------------------------------------------------------
\* Version deny (opcode 1, 9 bytes), the poll tick, game list requests
\* ---------------------------------------------------------------------
sendGameInfoFullReq_ProtoZero(g) == Dgram(OP_GAME_LIST_REQUEST, g.ip, g.port, 0)
sendGameInfoFullReq(g) == Dgram(OP_GAME_LIST_REQUEST, g.ip, g.port, g.netgameProto)

\* indices of the records a version deny from ip writes the protocol to
DenyTargets_EveryUnknown(m, ip) ==
  {i \in 1..Len(m) : m[i].ip = ip /\ m[i].netgameProto = 0}
DenyTargets(m, ip) ==
  LET i == FirstIndex(m, LAMBDA g : g.ip = ip)
  IN IF i = 0 THEN {} ELSE {i}

HandleVersionDeny(ip, proto) ==
  LET hit == DenyTargets(activeGames, ip)
  IN /\ steps' = steps + 1
     /\ out' = <<>>
     /\ wsOut' = <<>>
     /\ UNCHANGED <<gameEvents, wsClients, timers, now, firebaseOn>>
     /\ activeGames' = [i \in 1..Len(activeGames) |->
                          IF i \in hit
                          THEN [activeGames[i] EXCEPT !.netgameProto = proto]
                          ELSE activeGames[i]]
     /\ hist' = [l \in 1..Len(hist) |->
                   IF \E i \in hit : activeGames[i].life = l
                   THEN [hist[l] EXCEPT !.taught = proto]
                   ELSE hist[l]]

\* the probe of one record on a poll tick
PollProbe_FullOnly(g) == sendGameInfoFullReq(g)
PollProbe(g) == IF ~g.confirmed THEN sendGameInfoLiteReq(g) ELSE sendGameInfoFullReq(g)

\* the working gamelog summary before any event was read (null)
NullSummary == [isNull |-> TRUE, players |-> <<>>, killFeed |-> <<>>]

\* writeGamelistFile: the keys of the confirmed records, in registry order,
\* and the working gamelog summary (tracker.js writes no summary)
writeGamelistFile_AllRecords(m, summary) ==
  [games |-> [i \in 1..Len(m) |-> m[i].id], gamelog |-> summary]
writeGamelistFile(m, summary) ==
  LET listed == SeqFilter(m, LAMBDA g : g.confirmed)
  IN [games |-> [i \in 1..Len(listed) |-> listed[i].id], gamelog |-> summary]

pollActiveGames ==
  /\ steps' = steps + 1
  /\ snapshot' = writeGamelistFile(activeGames, NullSummary)
  /\ out' = [i \in 1..Len(activeGames) |-> PollProbe(activeGames[i])]
  /\ wsOut' = <<>>
  /\ UNCHANGED <<activeGames, gameEvents, wsClients, timers, now, firebaseOn, hist>>

\* the opcode-22 frame for record g, sent to the requester
sendGameListResponse(g, ip, port) ==
  [op |-> OP_GAME_LIST_RESPONSE, ip |-> ip, port |-> port, proto |-> 0, game |-> g.id]

ListMatch_AnyConfirmed(g, version) == g.confirmed
ListMatch(g, version) == g.confirmed /\ g.version = version

\* lenOk: the packet is 3 bytes long
HandleGameListRequest(ip, srcPort, lenOk, version) ==
  /\ steps' = steps + 1
  /\ wsOut' = <<>>
  /\ UNCHANGED <<activeGames, gameEvents, wsClients, timers, now, firebaseOn, hist>>
  /\ out' = IF ~lenOk THEN <<>>
            ELSE LET listed == SeqFilter(activeGames, LAMBDA g : ListMatch(g, version))
                 IN [k \in 1..Len(listed) |-> sendGameListResponse(listed[k], ip, srcPort)]

\* ---------------------------------------------------------------------
\* scraper/udp-tracker.js: the textual gamelog streams (the local watcher on
\* gamelog.txt and the uploads over HTTP) and their merge

\* one line of gamelog text, as the fields the parser reads from it; a
\* timestamp of 0 is a line without one
Line(ts, type, killer, victim, player) ==
  [timestamp |-> ts, type |-> type, killer |-> killer, victim |-> victim,
   player |-> player]

\* the kill "a kills b" at time 1 as a logs it, as b logs it and as a third
\* player logs it; a later kill; a suicide; a line no pattern matches
KillAsKiller == Line(1, "kill", "You", "b", "")
KillAsVictim == Line(1, "kill", "a", "You", "")
KillAsSeen == Line(1, "kill", "a", "b", "")
KillLater == Line(2, "kill", "b", "a", "")
Suicide == Line(2, "suicide", "", "", "Yourself")
Unmatched == Line(0, "unknown", "", "", "")

Contents ==
  {<<KillAsKiller>>, <<KillAsVictim>>, <<KillAsSeen>>, <<Unmatched>>,
   <<KillLater, KillAsSeen>>, <<Suicide, KillAsKiller>>}
Uploaders == {"a", "b", "A"}

\* gamelog-parser.js: a participant "You" or "Yourself" becomes the bound
\* identity; without one it becomes the placeholder
replaceLocalPlayer(name, localPlayer) ==
  IF name \in {"You", "Yourself"}
  THEN IF localPlayer = "" THEN "_local_" ELSE localPlayer
  ELSE name

parseGamelogContent(content, localPlayer) ==
  [i \in 1..Len(content) |->
     [content[i] EXCEPT !.killer = replaceLocalPlayer(@, localPlayer),
                        !.victim = replaceLocalPlayer(@, localPlayer),
                        !.player = replaceLocalPlayer(@, localPlayer)]]

Meaningful(events) == SeqFilter(events, LAMBDA e : e.type # "unknown")

CountOf(events, P(_)) == Cardinality({i \in 1..Len(events) : P(events[i])})

\* gamelog-parser.js: per identity the kills, deaths and suicides of the
\* events, and the kill events in the order given
SummaryNames == <<"A", "_local_", "a", "b">>
summarize(events) ==
  LET named == SeqFilter(SummaryNames, LAMBDA n :
                 \E i \in 1..Len(events) :
                    /\ events[i].type # "unknown"
                    /\ n \in {events[i].killer, events[i].victim, events[i].player})
  IN [isNull |-> FALSE,
      players |-> [i \in 1..Len(named) |->
         Player(named[i],
                CountOf(events, LAMBDA e : e.type = "kill" /\ e.killer = named[i]),
                CountOf(events, LAMBDA e : \/ e.type = "kill" /\ e.victim = named[i]
                                           \/ e.type = "suicide" /\ e.player = named[i]),
                CountOf(events, LAMBDA e : e.type = "suicide" /\ e.player = named[i]))],
      killFeed |-> SeqFilter(events, LAMBDA e : e.type = "kill")]

RECURSIVE ClientEvents(_)
ClientEvents(clients) ==
  IF clients = <<>> THEN <<>>
  ELSE Head(clients).events \o ClientEvents(Tail(clients))

\* the key `${ts}|${type}|${killer}|${victim}|${player}`
DedupKey(ev) == <<ev.timestamp, ev.type, ev.killer, ev.victim, ev.player>>

\* indices of the events the loop over allEvents pushes to deduped
Deduped_KeepAll(allEvents) == 1..Len(allEvents)
Deduped(allEvents) ==
  {i \in 1..Len(allEvents) :
     \A j \in 1..(i-1) : DedupKey(allEvents[j]) # DedupKey(allEvents[i])}

\* Array.prototype.sort by timestamp (stable) of the events at the indices idx
RECURSIVE SortByTimestamp(_, _)
SortByTimestamp(evs, idx) ==
  IF idx = {} THEN <<>>
  ELSE LET i == CHOOSE i \in idx : \A j \in idx :
                   \/ evs[i].timestamp < evs[j].timestamp
                   \/ evs[i].timestamp = evs[j].timestamp /\ i <= j
       IN <<evs[i]>> \o SortByTimestamp(evs, idx \ {i})

getMergedGamelogSummary(events, clients) ==
  LET allEvents == events \o ClientEvents(clients)
  IN IF allEvents = <<>> THEN NullSummary
     ELSE summarize(SortByTimestamp(allEvents, Deduped(allEvents)))

\* String.prototype.toLowerCase on the names of the model
toLowerCase(name) == IF name = "A" THEN "a" ELSE name

MergeStats(games, summary) ==
  [i \in 1..Len(games) |->
     IF ~games[i].confirmed THEN games[i]
     ELSE [games[i] EXCEPT !.players =
             [j \in 1..Len(games[i].players) |->
                LET p == games[i].players[j]
                    k == FirstIndex(summary.players,
                           LAMBDA lp : toLowerCase(lp.name) = toLowerCase(p.name))
                IN IF k = 0 THEN p
                   ELSE [p EXCEPT !.kills = summary.players[k].kills,
                                  !.deaths = summary.players[k].deaths,
                                  !.suicides = summary.players[k].suicides]]]]

\* events and working are the values gamelogEvents and gamelogSummary have
\* when the function is called
mergeGamelogStatsIntoActiveGames(events, working, clients) ==
  LET summary == IF Len(clients) > 0 THEN getMergedGamelogSummary(events, clients)
                 ELSE working
  IN IF summary.isNull \/ Len(summary.players) = 0
     THEN /\ gamelogSummary' = working
          /\ activeGames' = activeGames
          /\ snapshot' = snapshot
     ELSE /\ gamelogSummary' = IF Len(clients) > 0 THEN summary ELSE working
          /\ activeGames' = MergeStats(activeGames, summary)
          /\ snapshot' = writeGamelistFile(MergeStats(activeGames, summary),
                                           IF Len(clients) > 0 THEN summary ELSE working)

detectLocalPlayer ==
  LET i == FirstIndex(activeGames, LAMBDA g :
             g.confirmed /\ Len(g.players) > 0 /\ g.players[1].name # "")
  IN IF i = 0 THEN "" ELSE activeGames[i].players[1].name

broadcastWS(types) ==
  IF Len(wsClients) = 0 THEN <<>>
  ELSE [i \in 1..Len(types) |-> [type |-> types[i], id |-> <<0, 0>>, rcpt |-> OpenClients]]

\* truncated: the file is shorter than at the last read; content: the lines
\* from the read position to the end of the file
processGamelogUpdate(truncated, content) ==
  LET events0 == IF truncated THEN <<>> ELSE gamelogEvents
      working0 == IF truncated THEN NullSummary ELSE gamelogSummary
      name0 == IF truncated THEN "" ELSE localPlayerName
      reset == IF truncated THEN <<"gamelog_reset">> ELSE <<>>
      name == IF name0 = "" THEN detectLocalPlayer ELSE name0
      newEvents == parseGamelogContent(content, name)
      meaningfulEvents == Meaningful(newEvents)
  IN /\ steps' = steps + 1
     /\ out' = <<>>
     /\ UNCHANGED <<gameEvents, wsClients, timers, now, firebaseOn, hist, clientGamelogs>>
     /\ IF content = <<>>
        THEN /\ gamelogEvents' = events0
             /\ gamelogSummary' = working0
             /\ localPlayerName' = name0
             /\ wsOut' = broadcastWS(reset)
             /\ UNCHANGED <<activeGames, snapshot>>
        ELSE IF meaningfulEvents = <<>>
        THEN /\ gamelogEvents' = events0
             /\ gamelogSummary' = working0
             /\ localPlayerName' = name
             /\ wsOut' = broadcastWS(reset)
             /\ UNCHANGED <<activeGames, snapshot>>
        ELSE /\ gamelogEvents' = events0 \o newEvents
             /\ localPlayerName' = name
             /\ wsOut' = broadcastWS(reset \o
                           [i \in 1..Len(meaningfulEvents) |-> "game_event"] \o
                           <<"game_summary">>)
             /\ mergeGamelogStatsIntoActiveGames(events0 \o newEvents,
                                                 summarize(events0 \o newEvents),
                                                 clientGamelogs)

GamelogUpdate ==
  \E truncated \in BOOLEAN, content \in Contents \cup {<<>>} :
     /\ truncated => content \in {<<>>, <<KillAsSeen>>}
     /\ processGamelogUpdate(truncated, content)

ClientIndex_None(clients, playerName) == 0
ClientIndex(clients, playerName) == FirstIndex(clients, LAMBDA c : c.name = playerName)

\* POST /api/gamelog: the player's stream is replaced
PostGamelog(playerName, content) ==
  LET meaningful == Meaningful(parseGamelogContent(content, playerName))
      entry == [name |-> playerName, events |-> meaningful]
      i == ClientIndex(clientGamelogs, playerName)
      clients == IF i = 0 THEN Append(clientGamelogs, entry)
                 ELSE [clientGamelogs EXCEPT ![i] = entry]
  IN /\ steps' = steps + 1
     /\ out' = <<>>
     /\ wsOut' = <<>>
     /\ UNCHANGED <<gameEvents, wsClients, timers, now, firebaseOn, hist,
                    gamelogEvents, localPlayerName>>
     /\ IF playerName = "" \/ content = <<>>
        THEN UNCHANGED <<clientGamelogs, gamelogSummary, activeGames, snapshot>>
        ELSE /\ clientGamelogs' = clients
             /\ mergeGamelogStatsIntoActiveGames(gamelogEvents, gamelogSummary, clients)

\* POST /api/gamelog/append: the lines are added to the player's stream
PostGamelogAppend(playerName, newLines) ==
  LET meaningful == Meaningful(parseGamelogContent(newLines, playerName))
      i == ClientIndex(clientGamelogs, playerName)
      clients == IF i = 0
                 THEN Append(clientGamelogs, [name |-> playerName, events |-> meaningful])
                 ELSE [clientGamelogs EXCEPT ![i].events = @ \o meaningful]
  IN /\ steps' = steps + 1
     /\ out' = <<>>
     /\ wsOut' = <<>>
     /\ UNCHANGED <<gameEvents, wsClients, timers, now, firebaseOn, hist,
                    gamelogEvents, localPlayerName>>
     /\ IF playerName = "" \/ newLines = <<>>
        THEN UNCHANGED <<clientGamelogs, gamelogSummary, activeGames, snapshot>>
        ELSE /\ clientGamelogs' = clients
             /\ mergeGamelogStatsIntoActiveGames(gamelogEvents, gamelogSummary, clients)

\* a request without a name or without content is tried once each
Bodies ==
  (Uploaders \X Contents) \cup {<<"", <<KillAsSeen>>>>, <<"a", <<>>>>}
Upload == \E body \in Bodies : PostGamelog(body[1], body[2])
UploadAppend == \E body \in Bodies : PostGamelogAppend(body[1], body[2])

\* ---------------------------------------------------------------------
\* scraper/index.js: scrape() run once, or on every cron tick in --watch mode
\* ---------------------------------------------------------------------
\* the links of the archive listing: the page of the first has players, the
\* page of the second parses to a game without players
Archive == {"game-1.html", "game-2.html"}
HasPlayers(link) == link = "game-1.html"
\* the calls of scrape(): in --watch mode cron starts one every INTERVAL
\* minutes whether or not the previous call has returned
Runs == {1, 2}

IdleRun == [pc |-> "idle", newLinks |-> {}, newGames |-> {}, toCount |-> {}]
\* an empty Firestore, no call of scrape() under way
ScraperStart ==
  [knownIds |-> {}, games |-> {}, fetches |-> [l \in Archive |-> 0],
   stats |-> [l \in Archive |-> 0], runs |-> [r \in Runs |-> IdleRun]]

\* the links to fetch: those not in the known-ids set read from Firestore
NewLinks(allLinks, knownIds) == {link \in allLinks : link \notin knownIds}

\* scrape() up to the end of getKnownGameIds: the listing is fetched (or not)
\* and the known ids are read
ScrapeList(r) ==
  /\ scraper.runs[r].pc = "idle"
  /\ \E listed \in BOOLEAN :
        LET newLinks == NewLinks(Archive, scraper.knownIds) IN
        scraper' = [scraper EXCEPT !.runs[r] =
           IF ~listed \/ newLinks = {}
           THEN [@ EXCEPT !.pc = "done"]
           ELSE [@ EXCEPT !.pc = "fetch", !.newLinks = newLinks]]

\* one task of step 4: the page is fetched and parsed, or the fetch fails
ScrapeFetch(r) ==
  /\ scraper.runs[r].pc = "fetch"
  /\ \E link \in scraper.runs[r].newLinks, ok \in BOOLEAN :
        LET left == scraper.runs[r].newLinks \ {link}
            games == IF ok /\ HasPlayers(link) THEN scraper.runs[r].newGames \cup {link}
                     ELSE scraper.runs[r].newGames
        IN scraper' = [scraper EXCEPT
              !.fetches[link] = IF ok THEN @ + 1 ELSE @,
              !.runs[r] = [@ EXCEPT !.newLinks = left, !.newGames = games,
                                    !.pc = IF left # {} THEN "fetch"
                                           ELSE IF games = {} THEN "done" ELSE "commit"]]

\* step 5: the games are written to the games collection
ScrapeCommit(r) ==
  /\ scraper.runs[r].pc = "commit"
  /\ scraper' = [scraper EXCEPT !.games = @ \cup scraper.runs[r].newGames,
                                !.runs[r].pc = "record"]

\* step 6, addKnownGameIds: the filenames join the known-ids set
ScrapeRecord(r) ==
  /\ scraper.runs[r].pc = "record"
  /\ scraper' = [scraper EXCEPT !.knownIds = @ \cup scraper.runs[r].newGames,
                                !.runs[r].pc = "stats",
                                !.runs[r].toCount = scraper.runs[r].newGames]

\* step 7, updatePlayerStats of one game: the increments are committed, or
\* the batch fails and the error is logged
ScrapeStats(r) ==
  /\ scraper.runs[r].pc = "stats"
  /\ \E game \in scraper.runs[r].toCount, ok \in BOOLEAN :
        LET left == scraper.runs[r].toCount \ {game} IN
        scraper' = [scraper EXCEPT
           !.stats[game] = IF ok THEN @ + 1 ELSE @,
           !.runs[r] = [@ EXCEPT !.toCount = left,
                                 !.pc = IF left = {} THEN "done" ELSE "stats"]]

\* ---------------------------------------------------------------------
\* scraper/gamelog-uploader.js: the uploader follows a gamelog.txt that the
\* game appends to and truncates, queues what it reads and posts the queue
\* batch by batch.  The file is the sequence of its lines, TRUE for a line
\* with text and FALSE for a blank one; a batch is the range of lines read.
\* ---------------------------------------------------------------------
MaxFile == 2         \* lines in gamelog.txt at once (SpecUploader)
MaxWritten == 4      \* writes to gamelog.txt in one run (SpecUploader)

UploaderStart ==
  [file |-> <<>>, written |-> 0, lastPosition |-> 0, uploadQueue |-> <<>>,
   isUploading |-> FALSE, inFlight |-> <<>>, immediates |-> 0,
   read |-> <<>>, attempted |-> <<>>, dropped |-> <<>>]

\* processUploadQueue up to its await
processUploadQueue_Unguarded(u) ==
  IF u.uploadQueue = <<>> THEN u
  ELSE LET batch == Head(u.uploadQueue) IN
       [u EXCEPT !.isUploading = TRUE,
                 !.uploadQueue = Tail(@),
                 !.inFlight = Append(@, batch),
                 !.attempted = Append(@, batch)]
processUploadQueue(u) ==
  IF u.isUploading \/ u.uploadQueue = <<>> THEN u
  ELSE LET batch == Head(u.uploadQueue) IN
       [u EXCEPT !.isUploading = TRUE,
                 !.uploadQueue = Tail(@),
                 !.inFlight = Append(@, batch),
                 !.attempted = Append(@, batch)]

readNewLines(u) ==
  LET size == Len(u.file)
      from == IF size < u.lastPosition THEN 0 ELSE u.lastPosition
      batch == [no |-> Len(u.read) + 1, from |-> from, to |-> size]
  IN IF size = from THEN [u EXCEPT !.lastPosition = from]
     ELSE IF \A i \in (from + 1)..size : ~u.file[i]
     THEN [u EXCEPT !.lastPosition = size]
     ELSE processUploadQueue([u EXCEPT !.lastPosition = size,
                                       !.uploadQueue = Append(@, batch),
                                       !.read = Append(@, batch)])

\* the game appends a line to gamelog.txt
GameWrites ==
  /\ uploader.written < MaxWritten
  /\ Len(uploader.file) < MaxFile
  /\ \E text \in BOOLEAN :
        uploader' = [uploader EXCEPT !.file = Append(@, text), !.written = @ + 1]

\* the game starts a new match: gamelog.txt is emptied
GameTruncates ==
  /\ uploader.written < MaxWritten
  /\ uploader.file # <<>>
  /\ uploader' = [uploader EXCEPT !.file = <<>>, !.written = @ + 1]

\* a tick of setInterval(readNewLines, CONFIG.checkInterval)
ReadTick == uploader' = readNewLines(uploader)

\* a request settles, with status 200 (ok) or with an error, a timeout or
\* another status; processUploadQueue goes on after its await
UploadSettles ==
  \E i \in 1..Len(uploader.inFlight), ok \in BOOLEAN :
     LET batch == uploader.inFlight[i]
         rest == [j \in 1..(Len(uploader.inFlight) - 1) |->
                    IF j < i THEN uploader.inFlight[j] ELSE uploader.inFlight[j + 1]]
     IN uploader' = [uploader EXCEPT
           !.inFlight = rest,
           !.dropped = IF ok THEN @ ELSE Append(@, batch),
           !.isUploading = FALSE,
           !.immediates = IF uploader.uploadQueue # <<>> THEN @ + 1 ELSE @]

\* setImmediate(processUploadQueue) runs
RunImmediate ==
  /\ uploader.immediates > 0
  /\ uploader' = processUploadQueue([uploader EXCEPT !.immediates = @ - 1])

Init ==
  /\ activeGames = <<>>
  /\ gameEvents = <<>>
  /\ wsClients = <<>>
  /\ timers = {}
  /\ now = 0
  /\ firebaseOn \in BOOLEAN
  /\ out = <<>>
  /\ wsOut = <<>>
  /\ hist = <<>>
  /\ steps = 0
  /\ gamelogEvents = <<>>
  /\ gamelogSummary = NullSummary
  /\ localPlayerName = ""
  /\ clientGamelogs = <<>>
  /\ snapshot = writeGamelistFile(<<>>, NullSummary)
  /\ scraper = ScraperStart
  /\ uploader = UploaderStart
  /\ dashboard = <<>>

Running == steps < MaxSteps

Next ==
  \/ Running /\ Register /\ UNCHANGED <<gvars, snapshot, ovars>>
  \/ Running /\ InfoResponse /\ UNCHANGED <<gvars, snapshot, ovars>>
  \/ Running /\ FireAck /\ UNCHANGED <<gvars, snapshot, ovars>>
  \/ Running /\ Unregister /\ UNCHANGED <<gvars, snapshot, ovars>>
  \/ Running /\ GamelogKill /\ UNCHANGED <<gvars, snapshot, ovars>>
  \/ Running /\ GamelogChat /\ UNCHANGED <<gvars, snapshot, ovars>>
  \/ Running /\ MDATA /\ UNCHANGED <<gvars, snapshot, ovars>>
  \/ Running /\ cleanupDeadGames /\ UNCHANGED <<gvars, snapshot, ovars>>
  \/ Running /\ Tick /\ UNCHANGED <<gvars, snapshot, ovars>>
  \/ Running /\ WsConnect /\ UNCHANGED <<gvars, snapshot, ovars>>
  \/ Running /\ WsClose /\ UNCHANGED <<gvars, snapshot, ovars>>

Spec == Init /\ [][Next]_vars

\* ---------------------------------------------------------------------
\* SpecEvents: one game is announced, then event packets arrive: a prefix
\* of freely mixed opcodes, then a burst of the opcode that appended last
\* ---------------------------------------------------------------------
LastAppended(type) ==
  \E k \in DOMAIN gameEvents :
     /\ gameEvents[k].log # <<>>
     /\ gameEvents[k].log[Len(gameEvents[k].log)].type = type

\* the opcode may change during the prefix and between two bursts
MayMix == steps <= MixPrefix \/ steps % BurstLen = 0
Appending == steps > 0 /\ steps < MaxAppends

EvRegister == steps = 0 /\ HandleRegister(1, 55000, TRUE, 5000, 1, 1)
EvKill ==
  /\ Appending
  /\ MayMix \/ LastAppended("kill")
  /\ HandleGamelogKill(1, TRUE, 0, 1)
EvChat ==
  /\ Appending
  /\ MayMix \/ LastAppended("chat")
  /\ HandleGamelogChat(1, TRUE, TRUE, 0)
EvMdata ==
  /\ Appending
  /\ steps <= MixPrefix
  /\ \E opcode \in {OP_MDATA_PNORM, OP_MDATA_PNEEDACK, OP_OBSDATA}, msgType \in MdataTypes :
        HandleMDATA(1, opcode, TRUE, 1, msgType, 0, 1)

NextEvents ==
  \/ EvRegister /\ UNCHANGED <<gvars, snapshot, ovars>>
  \/ EvKill /\ UNCHANGED <<gvars, snapshot, ovars>>
  \/ EvChat /\ UNCHANGED <<gvars, snapshot, ovars>>
  \/ EvMdata /\ UNCHANGED <<gvars, snapshot, ovars>>

\* nothing is archived in these runs
InitEvents == Init /\ ~firebaseOn

SpecEvents == InitEvents /\ [][NextEvents]_vars

\* ---------------------------------------------------------------------
\* Runs of registrations, lite responses, version denies, poll ticks and game
\* list requests: games of both versions on two hosts, one host with two games.
MaxPolled == 5       \* packets and poll ticks handled in one run (SpecPoll)

PollHosts == {<<1, 5000>>, <<1, 5001>>, <<2, 5000>>}
Versions == {1, 2}
Protos == {0, 7650, 7651}
ListVersions == {1, 2, 3}

Polling == steps < MaxPolled

PollRegister ==
  \E host \in PollHosts, gameId \in GameIds, version \in Versions :
     HandleRegister(host[1], 55000, TRUE, host[2], gameId, version)
PollInfo ==
  \E host \in PollHosts, gameId \in GameIds :
     HandleGameInfoResponse(host[1], host[2], LitePkt(LiteLen, gameId, 2))
VersionDeny == \E ip \in Ips, proto \in Protos : HandleVersionDeny(ip, proto)
GameListRequest ==
  \E lenOk \in BOOLEAN, version \in ListVersions :
     HandleGameListRequest(2, 55000, lenOk, version)

NextPoll ==
  \/ Polling /\ PollRegister /\ UNCHANGED <<gvars, snapshot, ovars>>
  \/ Polling /\ PollInfo /\ UNCHANGED <<gvars, snapshot, ovars>>
  \/ Polling /\ VersionDeny /\ UNCHANGED <<gvars, snapshot, ovars>>
  \/ Polling /\ pollActiveGames /\ UNCHANGED <<gvars, ovars>>
  \/ Polling /\ GameListRequest /\ UNCHANGED <<gvars, snapshot, ovars>>

SpecPoll == InitEvents /\ [][NextPoll]_vars

\* ---------------------------------------------------------------------
\* SpecFanout: one game is announced, answers probes and leaves while up to
\* two WebSocket clients connect, start closing and close.
MaxSockets == 2      \* WebSocket clients connected at once (SpecFanout)
MaxFanout == 6       \* packets and client events handled in one run (SpecFanout)

Fanning == steps < MaxFanout

\* what the open clients keep of the frames of one handler: per match key the
\* last game_new or game_removed
RECURSIVE NoteFrames(_, _)
NoteFrames(d, frames) ==
  IF frames = <<>> THEN d
  ELSE LET f == Head(frames)
           nd == IF f.type \in {"game_new", "game_removed"} /\ f.rcpt # {}
                 THEN [k \in DOMAIN d \cup {f.id} |-> IF k = f.id THEN f.type ELSE d[k]]
                 ELSE d
       IN NoteFrames(nd, Tail(frames))

dashboardReceives == dashboard' = NoteFrames(dashboard, wsOut')

FanRegister == \E gameId \in GameIds : HandleRegister(1, 55000, TRUE, 5000, gameId, 1)
FanInfo == \E gameId \in GameIds : HandleGameInfoResponse(1, 5000, LitePkt(LiteLen, gameId, 2))
FanUnregister == \E gameId \in GameIds : HandleUnregister(1, 55000, gameId)
FanConnect == Len(wsClients) < MaxSockets /\ WsAccept

NextFanout ==
  \/ Fanning /\ FanRegister /\ dashboardReceives /\ UNCHANGED <<gvars, snapshot, scraper, uploader>>
  \/ Fanning /\ FanInfo /\ dashboardReceives /\ UNCHANGED <<gvars, snapshot, scraper, uploader>>
  \/ Fanning /\ FireAck /\ dashboardReceives /\ UNCHANGED <<gvars, snapshot, scraper, uploader>>
  \/ Fanning /\ FanUnregister /\ dashboardReceives /\ UNCHANGED <<gvars, snapshot, scraper, uploader>>
  \/ Fanning /\ FanConnect /\ dashboardReceives /\ UNCHANGED <<gvars, snapshot, scraper, uploader>>
  \/ Fanning /\ WsClosing /\ dashboardReceives /\ UNCHANGED <<gvars, snapshot, scraper, uploader>>
  \/ Fanning /\ WsClose /\ dashboardReceives /\ UNCHANGED <<gvars, snapshot, scraper, uploader>>

SpecFanout == InitEvents /\ [][NextFanout]_vars

\* ---------------------------------------------------------------------
\* SpecReap: one host announces games and answers probes while the clock
\* moves; setInterval runs cleanupDeadGames every minute for as long as the
\* program lives, so a tick that has something to reap is not postponed for
\* ever. Ticks that find no dead record change nothing and are left out.
MaxReap == 5         \* packets and clock steps handled in one run (SpecReap)

Reaping == steps < MaxReap
ReapDue == \E i \in 1..Len(activeGames) : IsDead(activeGames[i], now)

ReapRegister ==
  \E gamePort \in GamePorts : HandleRegister(1, 55000, TRUE, gamePort, 1, 1)
ReapInfo ==
  \E gamePort \in GamePorts : HandleGameInfoResponse(1, gamePort, LitePkt(LiteLen, 1, 2))
ReapTick == ReapDue /\ cleanupDeadGames /\ UNCHANGED <<gvars, snapshot, ovars>>

NextReap ==
  \/ Reaping /\ ReapRegister /\ UNCHANGED <<gvars, snapshot, ovars>>
  \/ Reaping /\ ReapInfo /\ UNCHANGED <<gvars, snapshot, ovars>>
  \/ FireAck /\ UNCHANGED <<gvars, snapshot, ovars>>
  \/ Reaping /\ Tick /\ UNCHANGED <<gvars, snapshot, ovars>>
  \/ ReapTick

SpecReap == InitEvents /\ [][NextReap]_vars /\ WF_vars(ReapTick)

\* ---------------------------------------------------------------------
\* SpecHosts: two hosts announce a game each on the same port and with the
\* same game-id, and each sends every kind of packet about its game.
MaxHosted == 4       \* packets handled in one run (SpecHosts)

Hosting == steps < MaxHosted

RegisterFrom(ip) == HandleRegister(ip, 55000, TRUE, 5000, 1, 1)
InfoFrom(ip) == HandleGameInfoResponse(ip, 5000, LitePkt(LiteLen, 1, 2))
UnregisterFrom(ip) == HandleUnregister(ip, 55000, 1)
DenyFrom(ip) == HandleVersionDeny(ip, 7650)
MdataFrom(ip) == HandleMDATA(ip, OP_MDATA_PNORM, TRUE, 1, MULTI_KILL, 0, 1)
KillFrom(ip) == HandleGamelogKill(ip, TRUE, 0, 1)
ChatFrom(ip) == HandleGamelogChat(ip, TRUE, TRUE, 0)

NextHosts ==
  \/ Hosting /\ (\E ip \in Ips : RegisterFrom(ip)) /\ UNCHANGED <<gvars, snapshot, ovars>>
  \/ Hosting /\ (\E ip \in Ips : InfoFrom(ip)) /\ UNCHANGED <<gvars, snapshot, ovars>>
  \/ Hosting /\ FireAck /\ UNCHANGED <<gvars, snapshot, ovars>>
  \/ Hosting /\ (\E ip \in Ips : UnregisterFrom(ip)) /\ UNCHANGED <<gvars, snapshot, ovars>>
  \/ Hosting /\ (\E ip \in Ips : DenyFrom(ip)) /\ UNCHANGED <<gvars, snapshot, ovars>>
  \/ Hosting /\ (\E ip \in Ips : MdataFrom(ip)) /\ UNCHANGED <<gvars, snapshot, ovars>>
  \/ Hosting /\ (\E ip \in Ips : KillFrom(ip)) /\ UNCHANGED <<gvars, snapshot, ovars>>
  \/ Hosting /\ (\E ip \in Ips : ChatFrom(ip)) /\ UNCHANGED <<gvars, snapshot, ovars>>

SpecHosts == InitEvents /\ [][NextHosts]_vars

\* ---------------------------------------------------------------------
\* SpecScrape: the calls of scrape() against one Firestore, interleaved at
\* their awaits
\* the tracker's state, which the scraper and the uploader do not touch
tvars == <<activeGames, gameEvents, wsClients, timers, now, firebaseOn,
           out, wsOut, hist, steps, gvars, snapshot>>

NextScrape ==
  \/ \E r \in Runs : ScrapeList(r) /\ UNCHANGED <<tvars, uploader, dashboard>>
  \/ \E r \in Runs : ScrapeFetch(r) /\ UNCHANGED <<tvars, uploader, dashboard>>
  \/ \E r \in Runs : ScrapeCommit(r) /\ UNCHANGED <<tvars, uploader, dashboard>>
  \/ \E r \in Runs : ScrapeRecord(r) /\ UNCHANGED <<tvars, uploader, dashboard>>
  \/ \E r \in Runs : ScrapeStats(r) /\ UNCHANGED <<tvars, uploader, dashboard>>

SpecScrape == InitEvents /\ [][NextScrape]_vars

\* ---------------------------------------------------------------------
\* SpecUploader: the game writes gamelog.txt while the uploader reads it on
\* its timer and posts what it read.  Every request settles, the request
\* timeout of uploadGamelogData sees to that, and every setImmediate callback
\* runs.
NextUploader ==
  \/ GameWrites /\ UNCHANGED <<tvars, scraper, dashboard>>
  \/ GameTruncates /\ UNCHANGED <<tvars, scraper, dashboard>>
  \/ ReadTick /\ UNCHANGED <<tvars, scraper, dashboard>>
  \/ UploadSettles /\ UNCHANGED <<tvars, scraper, dashboard>>
  \/ RunImmediate /\ UNCHANGED <<tvars, scraper, dashboard>>

SpecUploader ==
  /\ InitEvents
  /\ [][NextUploader]_vars
  /\ WF_vars(UploadSettles /\ UNCHANGED <<tvars, scraper, dashboard>>)
  /\ WF_vars(RunImmediate /\ UNCHANGED <<tvars, scraper, dashboard>>)

\* ---------------------------------------------------------------------
\* Runs of scraper/udp-tracker.js in which only gamelog text arrives: reads of
\* the local gamelog.txt and uploads, in any order.
MaxUploads == 3      \* reads and uploads handled in one run (SpecGamelog)

\* the record of a game after its REGISTER, lite and full info responses
ScraperGame ==
  [NewGame(0) EXCEPT !.id = KeyOf(1, 5000), !.ip = 1, !.port = 5000, !.gameId = 1,
                     !.registerPort = 55000, !.confirmed = TRUE, !.broadcasted = TRUE,
                     !.playerCount = 2, !.detailed = TRUE,
                     !.players = <<Player("a", 0, 0, 0), Player("b", 0, 0, 0)>>]

InitGamelog ==
  /\ steps = 0
  /\ activeGames \in {<<>>, <<ScraperGame>>}
  /\ snapshot = writeGamelistFile(activeGames, NullSummary)
  /\ gameEvents = <<>>
  /\ wsClients = <<>>
  /\ timers = {}
  /\ now = 0
  /\ firebaseOn = FALSE
  /\ out = <<>>
  /\ wsOut = <<>>
  /\ hist = <<>>
  /\ gamelogEvents = <<>>
  /\ gamelogSummary = NullSummary
  /\ localPlayerName = ""
  /\ clientGamelogs = <<>>
  /\ scraper = ScraperStart
  /\ uploader = UploaderStart
  /\ dashboard = <<>>

Uploading == steps < MaxUploads

NextGamelog ==
  \/ Uploading /\ GamelogUpdate /\ UNCHANGED ovars
  \/ Uploading /\ Upload /\ UNCHANGED ovars
  \/ Uploading /\ UploadAppend /\ UNCHANGED ovars
  \/ Uploading /\ WsConnect /\ UNCHANGED <<gvars, snapshot, ovars>>

SpecGamelog == InitGamelog /\ [][NextGamelog]_vars

\* =====================================================================
\* Properties
\* =====================================================================
Lives == DOMAIN hist
PendingAcks(l) == {t \in timers : t.life = l}
\* the record object of life l, while it is in the registry
Alive(l) == \E i \in 1..Len(activeGames) : activeGames[i].life = l
RecordOf(l) == activeGames[FirstIndex(activeGames, LAMBDA g : g.life = l)]

\* C1: a record gets no register-ACK while it is pending; the info response
\* that moves it to confirmed sends one ACK and schedules two more, three in
\* all and never a fourth (later info responses and re-REGISTERs of the same
\* game-id add none); every one of them goes to the host IP and the source
\* port of the REGISTER that was last seen before the confirmation
C1_AckThriceToRegisterSource ==
  \A l \in Lives :
     /\ hist[l].acks + Cardinality(PendingAcks(l)) \in {0, 3}
     /\ Alive(l) => (RecordOf(l).confirmed <=> hist[l].acks + Cardinality(PendingAcks(l)) = 3)
     /\ hist[l].acks > 0 => hist[l].ackTo = {<<hist[l].key[1], hist[l].src>>}
     /\ \A t \in PendingAcks(l) : t.ip = hist[l].key[1] /\ t.port = hist[l].src
     /\ out # <<>> /\ out[1].op = OP_REGISTER_ACK =>
           \E k \in Lives : out[1].ip = hist[k].key[1] /\ out[1].port = hist[k].src

\* all three ACKs of a game registered from an ephemeral port have been sent
C1_Witness ==
  \E l \in Lives :
     /\ hist[l].acks = 3
     /\ hist[l].src # hist[l].key[2]
     /\ hist[l].ackTo = {<<hist[l].key[1], hist[l].src>>}

\* C2: a 73-byte lite response correlated to a record whose (non-zero)
\* game-id differs from the packet's is dropped: the record (classification,
\* last-seen, lite fields, player table) and the timers are unchanged, no
\* datagram is sent and no frame is published
C2_MismatchedLiteDropped ==
  [][\A ip \in Ips, srcPort \in GamePorts, pkt \in LitePackets :
       LET i == FindGame(activeGames, ip, srcPort) IN
       (/\ pkt.kind = "lite"
        /\ i # 0
        /\ activeGames[i].gameId # 0
        /\ activeGames[i].gameId # pkt.gameId
        /\ HandleGameInfoResponse(ip, srcPort, pkt))
       => /\ activeGames' = activeGames
          /\ timers' = timers
          /\ out' = <<>>
          /\ wsOut' = <<>>]_vars

\* C3: once a REGISTER with another game-id has replaced the record of a
\* match key, the event store of that key holds no entry that was appended
\* before the replacing record was created
C3_ReplacedStoreDiscarded ==
  \A i \in 1..Len(activeGames) :
     LET g == activeGames[i]
         st == StoreOf(gameEvents, g.id)
         Fresh(buf) == \A k \in 1..Len(buf) : buf[k].seq >= g.startTime
     IN (\E l \in Lives : hist[l].key = g.id /\ hist[l].fate = "replaced")
        => Fresh(st.killFeed) /\ Fresh(st.chat) /\ Fresh(st.timeline)

\* C4: a record in the registry is confirmed exactly if some info response
\* was decoded and applied to it (a lite response of 73 bytes whose game-id
\* matches, or a full response long enough to be parsed)
C4_ConfirmedIffDecoded ==
  \A l \in Lives : Alive(l) => (RecordOf(l).confirmed <=> hist[l].decoded)

Dead(h, l) == h[l].fate \in {"unregistered", "reaped"}

\* C5 as stated: with the archive sink enabled, every record that died by
\* UNREGISTER or by a cleanup tick was saved to the sink exactly once
C5_EveryDeadRecordSaved ==
  \A l \in Lives : firebaseOn /\ Dead(hist, l) => hist[l].saves = 1

\* C5, amended: a step that makes a record dead (UNREGISTER or cleanup tick)
\* calls archiveGameToHistory for it exactly once and removes it from the
\* registry; the sink's save is called once in that step if the record is
\* confirmed with a non-empty player table and the sink is enabled, and not
\* at all otherwise; no record is saved while alive, and nothing is archived
\* or saved for a record after its death
C5_ArchivedOnceIfArchivable ==
  [][\A l \in Lives :
       /\ Dead(hist, l) => /\ hist'[l].fate = hist[l].fate
                            /\ hist'[l].archCalls = hist[l].archCalls
                            /\ hist'[l].saves = hist[l].saves
                            /\ ~Alive(l)'
       /\ ~Dead(hist, l) => hist[l].archCalls = 0 /\ hist[l].saves = 0
       /\ ~Dead(hist, l) /\ Dead(hist', l) =>
             /\ Alive(l)
             /\ ~Alive(l)'
             /\ hist'[l].archCalls = 1
             /\ hist'[l].saves = IF RecordOf(l).confirmed /\ Len(RecordOf(l).players) > 0
                                     /\ firebaseOn
                                  THEN 1 ELSE 0]_vars

\* a confirmed game with players was reaped by a cleanup tick and saved
C5_Witness ==
  \E l \in Lives : hist[l].fate = "reaped" /\ hist[l].saves = 1 /\ hist[l].archCalls = 1

\* C6: a cleanup tick removes exactly the records whose last-seen age is
\* more than 300000 ms and keeps the others, in their order
C6_ReapsExactlyExpired ==
  [][cleanupDeadGames =>
       /\ \A i \in 1..Len(activeGames) :
             (now - activeGames[i].lastSeen > 300000) <=> ~MapHas(activeGames', activeGames[i].id)
       /\ activeGames' = SeqFilter(activeGames, LAMBDA g : now - g.lastSeen <= 300000)]_vars

\* a cleanup tick has reaped one record and kept another
C6_Witness ==
  /\ \E l \in Lives : hist[l].fate = "reaped"
  /\ \E i \in 1..Len(activeGames) : now - activeGames[i].lastSeen <= gameTimeout
  /\ now > gameTimeout

\* index of the first record of host ip with game-id gameId, or 0
FirstOfHost(ip, gameId) ==
  FirstIndex(activeGames, LAMBDA g : g.ip = ip /\ g.gameId = gameId)
RemovalFrame(id) ==
  IF Len(wsClients) = 0 THEN <<>>
  ELSE <<[type |-> "game_removed", id |-> id, rcpt |-> OpenClients]>>
\* an info response that finds no record changes nothing and sends nothing
UnknownSourceDropped ==
  \A ip \in Ips :
     (\A i \in 1..Len(activeGames) : activeGames[i].ip # ip) =>
        \A srcPort \in GamePorts, pkt \in LitePackets \cup FullPackets :
           (<<ip, srcPort>> \in Hosted /\ HandleGameInfoResponse(ip, srcPort, pkt))
           => /\ UNCHANGED <<activeGames, gameEvents, timers, hist>>
              /\ out' = <<>>
              /\ wsOut' = <<>>

\* C7 as stated: an UNREGISTER from host A with game-id G, whatever its
\* source port, removes the record of host A with game-id G and publishes
\* game_removed for its key; afterwards an info response from A's game port
\* is correlated to no record
C7_UnregisterThenUnknownSource ==
  [][\A ip \in Ips, srcPort \in SrcPorts, gameId \in GameIds :
       (FirstOfHost(ip, gameId) # 0 /\ HandleUnregister(ip, srcPort, gameId))
       => LET g == activeGames[FirstOfHost(ip, gameId)]
          IN /\ ~MapHas(activeGames', g.id)
             /\ wsOut' = RemovalFrame(g.id)
             /\ FindGame(activeGames', ip, g.port) = 0]_vars

\* C7, amended: an UNREGISTER from host A with game-id G, whatever its source
\* port, removes the first record in registry order whose host is A and
\* whose game-id is G, and no other record; game_removed for its key goes to
\* every open subscriber; an UNREGISTER that matches no record of its own
\* host removes nothing; afterwards an info response from A's game port is
\* correlated to no record if no other record of host A remains (otherwise
\* it is applied to the first remaining record of host A), and an info
\* response that finds no record is dropped without creating one
C7_UnregisterRemovesFirstMatch ==
  [][/\ \A ip \in Ips, srcPort \in SrcPorts, gameId \in GameIds :
          HandleUnregister(ip, srcPort, gameId) =>
             IF FirstOfHost(ip, gameId) = 0
             THEN activeGames' = activeGames /\ wsOut' = <<>>
             ELSE LET g == activeGames[FirstOfHost(ip, gameId)]
                      rest == SeqFilter(activeGames, LAMBDA e : e.id # g.id)
                  IN /\ activeGames' = rest
                     /\ wsOut' = RemovalFrame(g.id)
                     /\ FindGame(activeGames', ip, g.port) =
                           FirstIndex(rest, LAMBDA e : e.ip = ip)
                     /\ (\A k \in 1..Len(rest) : rest[k].ip # ip)
                           => FindGame(activeGames', ip, g.port) = 0
     /\ UnknownSourceDropped]_vars

\* a record registered from one port was removed by an UNREGISTER, the
\* removal was published to a subscriber, and its host has no record left
C7_Witness ==
  \E l \in Lives :
     /\ hist[l].fate = "unregistered"
     /\ wsOut = <<[type |-> "game_removed", id |-> hist[l].key, rcpt |-> {1}]>>
     /\ \A i \in 1..Len(activeGames) : activeGames[i].ip # hist[l].key[1]

\* C8: every key of the event-store map is the key of a record in the
\* registry
C8_StoreKeysAreRegistryKeys ==
  \A k \in DOMAIN gameEvents : MapHas(activeGames, k)

\* C9: in every store the kill-feed has at most 100 entries, the chat buffer
\* at most 200 and the timeline at most 500, whatever packets of opcode 31,
\* 32, 19, 20 and 25 were handled
C9_BuffersBounded ==
  \A k \in DOMAIN gameEvents :
     /\ Len(gameEvents[k].killFeed) <= 100
     /\ Len(gameEvents[k].chat) <= 200
     /\ Len(gameEvents[k].timeline) <= 500

OfType(log, type) == SelectSeq(log, LAMBDA e : e.type = type)
LastN(s, n) == IF Len(s) > n THEN SubSeq(s, Len(s) - n + 1, Len(s)) ELSE s
Reverse(s) == [i \in 1..Len(s) |-> s[Len(s) + 1 - i]]

\* more than 100 kills, more than 200 chat lines and more than 500 entries
\* in all were appended to one store, and each buffer is at its cap
C9_Witness ==
  \E k \in DOMAIN gameEvents :
     /\ Len(OfType(gameEvents[k].log, "kill")) > KillFeedCap
     /\ Len(OfType(gameEvents[k].log, "chat")) > ChatCap
     /\ Len(gameEvents[k].log) > TimelineCap
     /\ Len(gameEvents[k].killFeed) = KillFeedCap
     /\ Len(gameEvents[k].chat) = ChatCap
     /\ Len(gameEvents[k].timeline) = TimelineCap

\* C10 as stated: once more entries than its cap were appended to a buffer,
\* it holds the last cap of them in the order they were appended
C10_LastCapInAppendOrder ==
  \A k \in DOMAIN gameEvents :
     LET st == gameEvents[k]
         kills == OfType(st.log, "kill")
         chats == OfType(st.log, "chat")
     IN /\ Len(kills) > KillFeedCap => st.killFeed = LastN(kills, KillFeedCap)
        /\ Len(chats) > ChatCap => st.chat = LastN(chats, ChatCap)
        /\ Len(st.log) > TimelineCap => st.timeline = LastN(st.log, TimelineCap)

\* C10, amended: every buffer holds the last cap entries appended to it (all
\* of them while there are no more than cap), the oldest dropped first; the
\* chat buffer and the timeline keep them in the order they were appended,
\* the kill-feed keeps them newest first
C10_LastCapKillFeedNewestFirst ==
  \A k \in DOMAIN gameEvents :
     LET st == gameEvents[k]
     IN /\ st.killFeed = Reverse(LastN(OfType(st.log, "kill"), KillFeedCap))
        /\ st.chat = LastN(OfType(st.log, "chat"), ChatCap)
        /\ st.timeline = LastN(st.log, TimelineCap)

\* a kill-feed that overflowed: its first entry is the kill appended last,
\* and the oldest kill is gone from it
C10_Witness ==
  \E k \in DOMAIN gameEvents :
     LET st == gameEvents[k]
         kills == OfType(st.log, "kill")
     IN /\ Len(kills) > KillFeedCap
        /\ Len(st.log) > TimelineCap
        /\ st.killFeed[1] = kills[Len(kills)]
        /\ \A i \in 1..Len(st.killFeed) : st.killFeed[i] # kills[1]
        /\ st.timeline[1] # st.log[1]

\* the record an event packet of host ip is attributed to, or 0
EventGame(ip) == FirstIndex(activeGames, LAMBDA g : g.ip = ip)
\* 1 if the condition holds, else 0
Bit(b) == IF b THEN 1 ELSE 0
\* slot j of the table has its counters raised by dk, dd, ds
Raised(old, new, j, dk, dd, ds) ==
  /\ new[j].kills = old[j].kills + dk
  /\ new[j].deaths = old[j].deaths + dd
  /\ new[j].suicides = old[j].suicides + ds
  /\ new[j].name = old[j].name

C12_CountersNeverDecrease ==
  [][\A i \in 1..Len(activeGames), k \in 1..Len(activeGames') :
       activeGames'[k].life = activeGames[i].life =>
          LET old == activeGames[i].players
              new == activeGames'[k].players
          IN \A j \in 1..Len(old) :
                j <= Len(new) => /\ new[j].kills >= old[j].kills
                                 /\ new[j].deaths >= old[j].deaths
                                 /\ new[j].suicides >= old[j].suicides]_vars


\* ---------------------------------------------------------------------
\* Textual gamelog streams (SpecGamelog)
AllEvents == gamelogEvents \o ClientEvents(clientGamelogs)
HasKill(events, key) ==
  \E i \in 1..Len(events) : events[i].type = "kill" /\ DedupKey(events[i]) = key
EntriesFor(summary, key) == CountOf(summary.killFeed, LAMBDA e : DedupKey(e) = key)

SameBut(old, new, proto) == new = [old EXCEPT !.netgameProto = proto]

\* C15 as stated: a VERSION-DENY from host A with protocol P sets the
\* netgame protocol to P for every record of host A whose protocol is still
\* unknown (0), and leaves every other record as it was
C15_DenyTeachesEveryUnknown ==
  [][\A ip \in Ips, proto \in Protos :
       HandleVersionDeny(ip, proto) =>
          /\ Len(activeGames') = Len(activeGames)
          /\ \A i \in 1..Len(activeGames) :
               LET g == activeGames[i]
               IN IF g.ip = ip /\ g.netgameProto = 0
                  THEN SameBut(g, activeGames'[i], proto)
                  ELSE activeGames'[i] = g]_vars

\* C15, amended: a VERSION-DENY from host A with protocol P sets the netgame
\* protocol to P for the first record in registration order whose host is A,
\* whether or not that record already knew a protocol, and leaves every
\* other record as it was, later records of host A included
C15_DenyTeachesFirstOfHost ==
  [][\A ip \in Ips, proto \in Protos :
       HandleVersionDeny(ip, proto) =>
          /\ Len(activeGames') = Len(activeGames)
          /\ \A i \in 1..Len(activeGames) :
               LET g == activeGames[i]
               IN IF g.ip = ip /\ \A j \in 1..(i-1) : activeGames[j].ip # ip
                  THEN SameBut(g, activeGames'[i], proto)
                  ELSE activeGames'[i] = g]_vars

\* two records of one host, the first taught a protocol by a deny, the
\* second still without one; and a record of the other host untouched
C15_Witness ==
  \E i, j \in 1..Len(activeGames) :
     /\ i < j
     /\ activeGames[i].ip = activeGames[j].ip
     /\ activeGames[i].netgameProto # 0
     /\ hist[activeGames[i].life].taught = activeGames[i].netgameProto
     /\ activeGames[j].netgameProto = 0


FullReqsTo(dgrams, g) ==
  {k \in 1..Len(dgrams) :
     /\ dgrams[k].op = OP_GAME_LIST_REQUEST
     /\ dgrams[k].ip = g.ip /\ dgrams[k].port = g.port}

ProbesTo(dgrams, g) ==
  {k \in 1..Len(dgrams) : dgrams[k].ip = g.ip /\ dgrams[k].port = g.port}

LiteProbe(ip, gamePort) == <<Dgram(OP_LITE_REQ, ip, gamePort, 0)>>

\* C18: a REGISTER for a key that holds a record with the same game-id is a
\* refresh: the registry keeps its records and their order, no record object
\* is created, the record keeps its classification, its decoded fields, its
\* player table and its event store; its last-seen time becomes the current
\* time (and the register source port the packet's); exactly one lite
\* request goes to the host's game port
C18_SameIdRegisterRefreshes ==
  [][\A ip \in Ips, srcPort \in SrcPorts, gamePort \in GamePorts, gameId \in GameIds :
       LET key == KeyOf(ip, gamePort)
       IN (/\ MapHas(activeGames, key)
           /\ MapGet(activeGames, key).gameId = gameId
           /\ HandleRegister(ip, srcPort, TRUE, gamePort, gameId, 1))
          => LET i == MapIndex(activeGames, key)
                 g == activeGames[i]
             IN /\ Len(activeGames') = Len(activeGames)
                /\ \A k \in 1..Len(activeGames) : k # i => activeGames'[k] = activeGames[k]
                /\ activeGames'[i] = [g EXCEPT !.lastSeen = now, !.registerPort = srcPort,
                                               !.version = 1]
                /\ Len(hist') = Len(hist)
                /\ gameEvents' = gameEvents
                /\ out' = LiteProbe(ip, gamePort)]_vars

\* a confirmed record with players was refreshed by a REGISTER from another
\* source port than the one that was acknowledged, and probed again
C18_Witness ==
  \E i \in 1..Len(activeGames) :
     LET g == activeGames[i]
     IN /\ g.confirmed
        /\ Len(g.players) > 0
        /\ g.registerPort # hist[g.life].src
        /\ g.lastSeen = now
        /\ out = LiteProbe(g.ip, g.port)

\* C19: a REGISTER whose announced game port is below 1024, or whose length is
\* neither 14 nor 15 bytes, changes no record and no event store and sends
\* nothing; any other REGISTER leaves a record under (source IP, announced
\* port) and sends exactly one lite request to that address
C19_BadRegisterDroppedGoodProbed ==
  [][\A ip \in Ips, srcPort \in SrcPorts, lenOk \in BOOLEAN,
        gamePort \in GamePorts \cup LowPorts, gameId \in GameIds :
       (/\ <<ip, gamePort>> \in Hosted
        /\ (~lenOk => gamePort = 5000 /\ gameId = 1 /\ srcPort = 5000)
        /\ (gamePort \in LowPorts => gameId = 1 /\ srcPort = 5000)
        /\ HandleRegister(ip, srcPort, lenOk, gamePort, gameId, 1)) =>
          IF ~lenOk \/ gamePort < MinGamePort
          THEN /\ activeGames' = activeGames
               /\ gameEvents' = gameEvents
               /\ hist' = hist
               /\ out' = <<>>
          ELSE /\ MapHas(activeGames', KeyOf(ip, gamePort))
               /\ MapGet(activeGames', KeyOf(ip, gamePort)).gameId = gameId
               /\ out' = LiteProbe(ip, gamePort)]_vars

\* a REGISTER was accepted and probed; no record sits on a privileged port
C19_Witness ==
  /\ \E i \in 1..Len(activeGames) :
        /\ out = LiteProbe(activeGames[i].ip, activeGames[i].port)
        /\ activeGames[i].lastSeen = now
  /\ \A i \in 1..Len(activeGames) : activeGames[i].port >= MinGamePort


\* ---------------------------------------------------------------------
\* Game list (SpecPoll)
Listed(version) ==
  SeqFilter(activeGames, LAMBDA g : g.confirmed /\ g.version = version)

\* C20: a 3-byte game list request for version V is answered with exactly
\* one opcode-22 frame for every record that is confirmed and of version V,
\* each sent to the requester's address; records that are pending or of
\* another version get no frame; a request of another length is answered
\* with nothing; the registry is left as it was
C20_OneFramePerListedGame ==
  [][\A lenOk \in BOOLEAN, version \in ListVersions :
       HandleGameListRequest(2, 55000, lenOk, version) =>
          /\ activeGames' = activeGames
          /\ ~lenOk => out' = <<>>
          /\ lenOk =>
               /\ \A k \in 1..Len(out') :
                    /\ out'[k].op = OP_GAME_LIST_RESPONSE
                    /\ out'[k].ip = 2 /\ out'[k].port = 55000
               /\ \A i \in 1..Len(activeGames) :
                    Cardinality({k \in 1..Len(out') : out'[k].game = activeGames[i].id})
                      = IF activeGames[i].confirmed /\ activeGames[i].version = version
                        THEN 1 ELSE 0
               /\ Len(out') = Len(Listed(version))]_vars

\* a request has just been answered with one frame while the registry holds
\* a second record that is pending or of the other version
C20_Witness ==
  /\ Len(out) = 1
  /\ out[1].op = OP_GAME_LIST_RESPONSE
  /\ Len(activeGames) = 2
  /\ \E i \in 1..2 : activeGames[i].id = out[1].game /\ activeGames[i].confirmed


\* ---------------------------------------------------------------------
\* Lifecycle (Spec)

\* C21: a record object that is confirmed stays confirmed for as long as it
\* is in the registry; a record object that has left the registry never
\* returns to it; a record object enters the registry only in a REGISTER
\* step, and enters it pending
C21_PendingConfirmedDead ==
  [][/\ \A l \in Lives :
          /\ (Alive(l) /\ RecordOf(l).confirmed /\ Alive(l)') => RecordOf(l)'.confirmed
          /\ ~Alive(l) => ~Alive(l)'
     /\ \A i \in 1..Len(activeGames') :
          LET g == activeGames'[i]
          IN g.life \notin Lives =>
               /\ ~g.confirmed
               /\ HandleRegister(g.ip, g.registerPort, TRUE, g.port, g.gameId, g.version)]_vars

\* a record was confirmed and then removed by its UNREGISTER or by a reap,
\* and a REGISTER has since put a pending record under the same key
C21_Witness ==
  \E l, n \in Lives :
     /\ l < n
     /\ Dead(hist, l) /\ hist[l].acks > 0
     /\ hist[n].key = hist[l].key
     /\ Alive(n) /\ ~RecordOf(n).confirmed


\* C22: the registry follows the REGISTER and UNREGISTER frames of a host for
\* a match key. After an accepted REGISTER the key holds a record with the
\* REGISTER's game-id; while the record stays in the registry no other frame
\* (a LITE-INFO in particular) changes its game-id; and the record leaves the
\* registry only by an UNREGISTER of its host with its game-id, by a reap, or
\* by a REGISTER for its key
C22_RegistryFollowsLastRegister ==
  [][/\ \A l \in Lives :
          (Alive(l) /\ Alive(l)') => RecordOf(l)'.gameId = RecordOf(l).gameId
     /\ \A l \in Lives :
          (Alive(l) /\ ~Alive(l)') =>
             LET g == RecordOf(l)
             IN \/ hist'[l].fate = "unregistered" /\ wsOut' = RemovalFrame(g.id)
                \/ hist'[l].fate = "reaped" /\ IsDead(g, now)
                \/ /\ hist'[l].fate = "replaced"
                   /\ MapHas(activeGames', g.id)
                   /\ MapGet(activeGames', g.id).gameId # g.gameId]_vars


\* C23: with a WebSocket client connected, an info response applied to a
\* record publishes one frame for that record: game_new when it is the
\* record's first confirmation, game_update when the record was confirmed
\* before; so a game_update of a lifecycle always follows its game_new
C23_GameNewThenUpdates ==
  [][\A ip \in Ips, srcPort \in GamePorts, pkt \in LitePackets \cup FullPackets :
        LET i == FindGame(activeGames, ip, srcPort) IN
        (/\ HandleGameInfoResponse(ip, srcPort, pkt)
         /\ i # 0
         /\ ~(pkt.op = OP_LITE /\ pkt.kind # "lite")
         /\ OpenClients # {})
        => /\ Len(wsOut') = 1
           /\ wsOut'[1].id = activeGames[i].id
           /\ wsOut'[1].type = IF activeGames[i].confirmed THEN "game_update"
                               ELSE "game_new"]_vars


\* C24: an opcode 19/20/25 datagram of valid length from a host with a
\* record appends to that match's event store the event its multibuf tag
\* stands for: a kill for MULTI-KILL, a chat line for MULTI-MESSAGE and
\* OBS-MESSAGE, a death for PLAYER-EXPLODE, a quit for QUIT; any other tag
\* leaves the store's lists as they were
C24_MdataAppendsEvent ==
  [][\A ip \in Ips, opcode \in {OP_MDATA_PNORM, OP_MDATA_PNEEDACK, OP_OBSDATA},
        token \in GameIds, msgType \in MdataTypes :
        LET i == MdataGame(activeGames, ip, token) IN
        (HandleMDATA(ip, opcode, TRUE, token, msgType, 0, 1) /\ i # 0)
        => LET g == activeGames[i]
               st == StoreOf(gameEvents, g.id)
               after == StoreOf(gameEvents', g.id)
               name(n) == getUniquePlayerName(g.players, n)
           IN after =
                IF msgType = MULTI_KILL
                THEN AddKill(st, Event("kill", 0, 1, name(0), name(1)))
                ELSE IF msgType = MULTI_MESSAGE
                THEN AddChat(st, Event("chat", 0, 0, name(0), <<"", 0>>))
                ELSE IF msgType = MULTI_OBS_MESSAGE
                THEN AddChat(st, Event("chat", 0, 0, <<"Observer", 0>>, <<"", 0>>))
                ELSE IF msgType = MULTI_PLAYER_EXPLODE
                THEN AddTimeline(st, Event("death", 0, 0, name(0), <<"", 0>>))
                ELSE IF msgType = MULTI_QUIT
                THEN AddTimeline(st, Event("quit", 0, 0, name(0), <<"", 0>>))
                ELSE st]_vars


\* the step appends one event of the given type to the store of a record
\* whose host IP is ip and touches no other store
AppendedToHost(ip, type) ==
  \E i \in 1..Len(activeGames) :
     LET id == activeGames[i].id
         old == StoreOf(gameEvents, id).log
     IN /\ activeGames[i].ip = ip
        /\ EvHas(gameEvents', id)
        /\ Len(gameEvents'[id].log) = Len(old) + 1
        /\ SubSeq(gameEvents'[id].log, 1, Len(old)) = old
        /\ gameEvents'[id].log[Len(old) + 1].type = type
        /\ DOMAIN gameEvents' = DOMAIN gameEvents \cup {id}
        /\ \A k \in DOMAIN gameEvents \ {id} : gameEvents'[k] = gameEvents[k]

\* C25: a well-formed GAMELOG-KILL or GAMELOG-CHAT packet from source IP A
\* is appended to the event store of a match whose host IP is A; when no
\* record has host IP A the packet is dropped and the event stores, their
\* key set included, stay as they were
C25_GamelogByHostIp ==
  [][/\ \A ip \in Ips, killerId \in Slots, killedId \in Slots :
          HandleGamelogKill(ip, TRUE, killerId, killedId) =>
             IF \E i \in 1..Len(activeGames) : activeGames[i].ip = ip
             THEN AppendedToHost(ip, "kill")
             ELSE gameEvents' = gameEvents
     /\ \A ip \in Ips :
          HandleGamelogChat(ip, TRUE, TRUE, 0) =>
             IF \E i \in 1..Len(activeGames) : activeGames[i].ip = ip
             THEN AppendedToHost(ip, "chat")
             ELSE gameEvents' = gameEvents]_vars
\* a store holds both a kill and a chat line, its record lives on a game
\* port that differs from the port the host registered from
C25_Witness ==
  \E i \in 1..Len(activeGames) :
     LET g == activeGames[i] IN
     /\ g.registerPort # g.port
     /\ EvHas(gameEvents, g.id)
     /\ \E a, b \in 1..Len(gameEvents[g.id].log) :
          /\ gameEvents[g.id].log[a].type = "kill"
          /\ gameEvents[g.id].log[b].type = "chat"


\* C26: an info response from ip:port (a step that leaves the event stores,
\* the clock and the client list alone) leaves every record but one as it was.
\* When a record's key is exactly ip:port that record is the one; otherwise
\* the one is a record with host IP ip
C26_ExactKeyBeforeHostIp ==
  [][\A ip \in Ips, srcPort \in GamePorts, pkt \in LitePackets \cup FullPackets :
        (/\ <<ip, srcPort>> \in Hosted
         /\ activeGames' # activeGames
         /\ gameEvents' = gameEvents /\ now' = now /\ wsClients' = wsClients
         /\ HandleGameInfoResponse(ip, srcPort, pkt)) =>
           /\ Len(activeGames') = Len(activeGames)
           /\ \E j \in 0..Len(activeGames) :
                /\ \A i \in 1..Len(activeGames) :
                      i # j => activeGames'[i] = activeGames[i]
                /\ j # 0 => activeGames[j].ip = ip
                /\ MapHas(activeGames, KeyOf(ip, srcPort)) =>
                      j = MapIndex(activeGames, KeyOf(ip, srcPort))]_vars
\* two records on one host, the later one confirmed and the earlier one
\* still pending: the response went to the record with the exact key
C26_Witness ==
  /\ Len(activeGames) >= 2
  /\ activeGames[1].ip = activeGames[2].ip
  /\ ~activeGames[1].confirmed
  /\ activeGames[2].confirmed
  /\ hist[activeGames[2].life].acks > 0


\* C27: a record that has had a full-info response applied keeps its player
\* table and its player count through every later LITE-INFO
C27_FullInfoOutlivesLite ==
  [][\A ip \in Ips, srcPort \in GamePorts, pkt \in LitePackets :
        (/\ <<ip, srcPort>> \in Hosted
         /\ activeGames' # activeGames
         /\ HandleGameInfoResponse(ip, srcPort, pkt)) =>
           \A l \in Lives :
              (Alive(l) /\ RecordOf(l).detailed) =>
                 /\ Alive(l)'
                 /\ RecordOf(l)'.players = RecordOf(l).players
                 /\ RecordOf(l)'.playerCount = RecordOf(l).playerCount]_vars


\* the info packets no parser decodes: an opcode 5 packet that is not 73
\* bytes long, an opcode 3 packet too short for header and player block
Malformed ==
  {pkt \in LitePackets \cup FullPackets :
     IF pkt.op = OP_LITE THEN pkt.kind # "lite" ELSE pkt.kind = "short"}

\* C28: a malformed info packet changes no record (classification, last-seen
\* and counters included), sends no register-ACK, starts no ACK timer and
\* publishes no WebSocket frame
C28_MalformedInfoChangesNothing ==
  [][\A ip \in Ips, srcPort \in GamePorts, pkt \in Malformed :
        (<<ip, srcPort>> \in Hosted /\ HandleGameInfoResponse(ip, srcPort, pkt)) =>
           /\ activeGames' = activeGames
           /\ timers' = timers
           /\ out' = <<>>
           /\ wsOut' = <<>>]_vars


\* C29: with the archive sink disabled, a record that is reaped or
\* unregistered leaves the registry together with its event store, its
\* game_removed frame is published to the connected clients, and it is
\* handed to archiveGameToHistory once and never again afterwards
C29_RemovedDespiteSinkFailure ==
  [][~firebaseOn =>
       \A l \in Lives :
          /\ (Alive(l) /\ ~Alive(l)' /\ hist'[l].fate \in {"reaped", "unregistered"}) =>
                LET id == RecordOf(l).id IN
                /\ ~MapHas(activeGames', id)
                /\ ~EvHas(gameEvents', id)
                /\ Len(wsClients) > 0 =>
                      \E f \in 1..Len(wsOut') :
                         wsOut'[f].type = "game_removed" /\ wsOut'[f].id = id
                /\ hist'[l].archCalls = 1
          /\ ~Alive(l) => hist'[l].archCalls = hist[l].archCalls]_vars


\* the event streams stored under a player's name
StreamsOf(clients, name) ==
  {clients[i].events : i \in {j \in 1..Len(clients) : clients[j].name = name}}
\* the entries of the other players are where and what they were
OthersKept(name) ==
  \A i \in 1..Len(clientGamelogs) :
     clientGamelogs[i].name # name =>
        i <= Len(clientGamelogs') /\ clientGamelogs'[i] = clientGamelogs[i]
EntriesOf(clients, name) == Cardinality({j \in 1..Len(clients) : clients[j].name = name})

\* C30: an accepted POST /api/gamelog leaves under the player's name exactly
\* the meaningful events parsed from that request, whatever was stored
\* before (so repeating the request changes nothing), and leaves the other
\* players' streams alone; an accepted POST /api/gamelog/append leaves the
\* player's earlier stream followed by the newly parsed events
C30_ReplaceAndExtend ==
  [][\A body \in Uploaders \X Contents :
        LET name == body[1]
            parsed == Meaningful(parseGamelogContent(body[2], name))
            before == StreamsOf(clientGamelogs, name)
        IN /\ PostGamelog(name, body[2]) =>
                /\ StreamsOf(clientGamelogs', name) = {parsed}
                /\ EntriesOf(clientGamelogs', name) = 1
                /\ OthersKept(name)
                /\ before = {parsed} => clientGamelogs' = clientGamelogs
           /\ PostGamelogAppend(name, body[2]) =>
                /\ StreamsOf(clientGamelogs', name) =
                      IF before = {} THEN {parsed} ELSE {old \o parsed : old \in before}
                /\ EntriesOf(clientGamelogs', name) = 1
                /\ OthersKept(name)]_vars
\* two players have a stream each, and one of them is longer than any
\* single request: it was extended
C30_Witness ==
  /\ Len(clientGamelogs) = 2
  /\ \E i \in 1..2 : Len(clientGamelogs[i].events) >= 3
  /\ \E i \in 1..2 : Len(clientGamelogs[i].events) = 1


\* ---------------------------------------------------------------------
\* The live-games file
\* the keys of the confirmed records, in registry order
ConfirmedKeys(m) ==
  LET c == SeqFilter(m, LAMBDA g : g.confirmed) IN [i \in 1..Len(c) |-> c[i].id]

\* C31 as stated: once an info response that found a record has been handled,
\* the live-games file lists exactly the records confirmed at that moment
C31_SnapshotAfterEveryMutation ==
  [][\A host \in PollHosts, gameId \in GameIds :
        (/\ FindGame(activeGames, host[1], host[2]) # 0
         /\ HandleGameInfoResponse(host[1], host[2], LitePkt(LiteLen, gameId, 2)))
        => snapshot'.games = ConfirmedKeys(activeGames')]_vars

\* C31 as amended: the live-games file is rewritten by the poll tick, which
\* leaves in it exactly the records confirmed at that moment; every other
\* step leaves the file as it was
C31_SnapshotOnPollTick ==
  [][/\ pollActiveGames => snapshot'.games = ConfirmedKeys(activeGames')
     /\ ~pollActiveGames => snapshot' = snapshot]_vars
\* a poll tick listed a confirmed record; another record was confirmed since
\* and the file does not list it
C31_Witness ==
  /\ snapshot.games # <<>>
  /\ \E i \in 1..Len(activeGames) :
        /\ activeGames[i].confirmed
        /\ \A j \in 1..Len(snapshot.games) : snapshot.games[j] # activeGames[i].id


\* ---------------------------------------------------------------------
\* WebSocket fan-out (SpecFanout)
\* the frames of the step about the record with this key reach exactly the
\* open clients of the list
ReachesOpenClients(id) ==
  \/ OpenClients = {}
  \/ \E f \in 1..Len(wsOut') : wsOut'[f].id = id /\ wsOut'[f].rcpt = OpenClients

\* C32: whatever the state of the other clients in the list, a frame that a
\* handler publishes reaches every open client and no client that is not
\* open, and the handler completes its change of the registry: the info
\* response leaves its record confirmed and marked as broadcast, the
\* UNREGISTER leaves its record removed
C32_FanOutBestEffort ==
  [][/\ \A gameId \in GameIds :
          LET i == FindGame(activeGames, 1, 5000) IN
          (i # 0 /\ HandleGameInfoResponse(1, 5000, LitePkt(LiteLen, gameId, 2))) =>
             /\ ReachesOpenClients(activeGames[i].id)
             /\ activeGames'[i].confirmed
             /\ activeGames'[i].broadcasted
     /\ \A gameId \in GameIds :
          LET i == UnregisterMatch(activeGames, 1, gameId) IN
          (i # 0 /\ HandleUnregister(1, 55000, gameId)) =>
             /\ ReachesOpenClients(activeGames[i].id)
             /\ ~MapHas(activeGames', activeGames[i].id)
     /\ \A f \in 1..Len(wsOut') : wsOut'[f].rcpt \subseteq 1..Len(wsClients')]_vars


\* ---------------------------------------------------------------------
\* Reaping (SpecReap)
\* record object l is in the registry and its last-seen age exceeds the timeout
Overdue(l) == l \in Lives /\ Alive(l) /\ IsDead(RecordOf(l), now)

\* C33: a record whose last-seen age exceeds five minutes is eventually out
\* of the registry unless a REGISTER or an info response refreshes it first;
\* and a record is reaped only in a step at which its last-seen age exceeds
\* five minutes
C33_StaleReapedFreshKept ==
  /\ \A l \in 1..MaxLives : Overdue(l) ~> ~Overdue(l)
  /\ [][\A l \in Lives :
          (Alive(l) /\ hist'[l].fate = "reaped") =>
             now - RecordOf(l).lastSeen > gameTimeout]_vars
\* a record that an info response had refreshed was reaped later
C33_Witness ==
  \E l \in Lives : hist[l].fate = "reaped" /\ hist[l].decoded /\ now > gameTimeout


\* ---------------------------------------------------------------------
\* The archive scraper (SpecScrape)
\* C34: no page of the archive is fetched more than once, no game is counted
\* into the players' totals more than once, and no call of scrape() holds a
\* link to fetch that the known-ids set already records
C34_EachGameOnce ==
  /\ \A link \in Archive : scraper.fetches[link] <= 1 /\ scraper.stats[link] <= 1
  /\ \A r \in Runs : scraper.runs[r].newLinks \cap scraper.knownIds = {}


\* ---------------------------------------------------------------------
\* C35: after a complete FULL-INFO has been applied, every player the packet
\* names in a present slot is in the record's table with the kills the
\* packet's kill block holds at that slot's index, also when a slot with a
\* lower index is absent
C35_StatsOfOwnSlot ==
  [][\A ip \in Ips, srcPort \in GamePorts, pkt \in FullPackets :
        LET i == FindGame(activeGames, ip, srcPort) IN
        (/\ <<ip, srcPort>> \in Hosted
         /\ pkt.kind = "complete"
         /\ i # 0
         /\ activeGames' # activeGames
         /\ HandleGameInfoResponse(ip, srcPort, pkt))
        => \A sl \in 1..Len(pkt.slots) :
              (pkt.slots[sl].name # "" /\ pkt.slots[sl].connected > 0) =>
                 \E j \in 1..Len(activeGames'[i].players) :
                    /\ activeGames'[i].players[j].name = pkt.slots[sl].name
                    /\ activeGames'[i].players[j].kills = pkt.kills[sl]]_vars


\* ---------------------------------------------------------------------
\* Two hosts (SpecHosts)
\* the step leaves the records and the event stores of every host but ip as
\* they were and creates none for another host
OtherHostsUntouched(ip) ==
  /\ \A i \in 1..Len(activeGames) :
        activeGames[i].ip # ip =>
           \E j \in 1..Len(activeGames') : activeGames'[j] = activeGames[i]
  /\ \A j \in 1..Len(activeGames') :
        activeGames'[j].ip # ip =>
           \E i \in 1..Len(activeGames) : activeGames[i] = activeGames'[j]
  /\ \A k \in DOMAIN gameEvents \cup DOMAIN gameEvents' :
        k[1] # ip =>
           /\ k \in DOMAIN gameEvents /\ k \in DOMAIN gameEvents'
           /\ gameEvents'[k] = gameEvents[k]

\* C36: a REGISTER, info response, UNREGISTER, VERSION-DENY, MDATA or gamelog
\* packet whose source IP is A leaves every record and event store of the
\* other hosts unchanged, also when it carries a game-id another host uses
C36_OtherHostsUntouched ==
  [][\A ip \in Ips :
        (\/ RegisterFrom(ip) \/ InfoFrom(ip) \/ UnregisterFrom(ip) \/ DenyFrom(ip)
         \/ MdataFrom(ip) \/ KillFrom(ip) \/ ChatFrom(ip))
        => OtherHostsUntouched(ip)]_vars
\* host 1 withdrew its game; the game of host 2, which has the same game-id
\* and port, is still in the registry
C36_Witness ==
  /\ \E l \in Lives : hist[l].fate = "unregistered" /\ hist[l].key[1] = 1
  /\ \E i \in 1..Len(activeGames) :
        activeGames[i].ip = 2 /\ activeGames[i].gameId = 1 /\ activeGames[i].port = 5000


\* ---------------------------------------------------------------------
\* Lifecycle frames (SpecFanout)
\* C37: the game_new and game_removed frames of a match key alternate: a
\* game_new is never followed by another game_new of the same key without a
\* game_removed between them, nor a game_removed by another game_removed
\* without a game_new between them
C37_LifecycleFramesAlternate ==
  [][\A f \in 1..Len(wsOut') :
        (/\ wsOut'[f].type \in {"game_new", "game_removed"}
         /\ wsOut'[f].rcpt # {}
         /\ wsOut'[f].id \in DOMAIN dashboard)
        => dashboard[wsOut'[f].id] # wsOut'[f].type]_vars


\* ---------------------------------------------------------------------
\* The delayed ACKs
\* C38: every register-ACK is sent on behalf of a record that is in the
\* registry at that moment, to the source address of its latest REGISTER: an
\* UNREGISTER, reap or REGISTER between the first ACK and the delayed ones
\* prevents or redirects the remaining ACKs
C38_AcksFollowTheRecord ==
  [][\A l \in Lives :
        (l <= Len(hist) /\ hist'[l].acks > hist[l].acks)
        => /\ Alive(l)
           /\ out' = <<Dgram(OP_REGISTER_ACK, RecordOf(l).ip, RecordOf(l).registerPort, 0)>>]_vars

\* C38 as amended: a delayed ACK, once scheduled, is neither cancelled nor
\* redirected: whatever happens to the record, a pending timer stays pending
\* until it fires, and when it fires its ACK goes to the address that the
\* first ACK of the record went to
C38_AcksNeitherCancelledNorRedirected ==
  [][\A t \in timers :
        /\ hist[t.life].ackTo = {<<t.ip, t.port>>}
        /\ \/ t \in timers'
           \/ /\ timers' = timers \ {t}
              /\ out' = <<Dgram(OP_REGISTER_ACK, t.ip, t.port, 0)>>
              /\ hist'[t.life].acks = hist[t.life].acks + 1]_vars
\* the third ACK of a record has just been sent although the record has left
\* the registry
C38_Witness ==
  /\ out # <<>> /\ out[1].op = OP_REGISTER_ACK
  /\ \E l \in Lives :
        /\ hist[l].fate # "alive"
        /\ hist[l].acks = 3
        /\ \A k \in Lives \ {l} : hist[k].acks = 0 /\ PendingAcks(k) = {}


\* ---------------------------------------------------------------------
\* The upload queue of the uploader (SpecUploader)
\* C39: at most one upload request is in flight at any time; the batches are
\* attempted in the order they were read from the file, each once, whether
\* its upload succeeds or fails (what was read is what was attempted, in
\* order, followed by what is queued); and a queue that holds a batch
\* eventually drains to empty
C39_OneInFlightInOrderOnceAndDrains ==
  /\ [](/\ Len(uploader.inFlight) <= 1
        /\ uploader.isUploading <=> uploader.inFlight # <<>>
        /\ uploader.read = uploader.attempted \o uploader.uploadQueue
        /\ \A i \in 1..Len(uploader.dropped) :
              \E j \in 1..Len(uploader.attempted) : uploader.attempted[j] = uploader.dropped[i])
  /\ (uploader.uploadQueue # <<>>) ~> (uploader.uploadQueue = <<>>)
\* an upload failed and its batch was dropped, the next batch is in flight
\* and a third one waits in the queue
C39_Witness ==
  /\ uploader.dropped # <<>>
  /\ uploader.inFlight # <<>>
  /\ uploader.uploadQueue # <<>>


\* ---------------------------------------------------------------------
\* The gamelog reset (SpecGamelog)
\* the kill events of a summary are all among the given events
KillsAmong(summary, events) ==
  \A i \in 1..Len(summary.killFeed) :
     \E j \in 1..Len(events) : events[j] = summary.killFeed[i]

\* C40: when the local watcher finds gamelog.txt shorter than at its last
\* read, the event stream is reset: the working summary that the handler
\* leaves, and the summary it writes to the live-games file when it writes
\* the file, hold no event from before the reset, read locally or uploaded by
\* a player, only what the handler read from the new file
C40_NothingSurvivesReset ==
  [][\A content \in {<<>>, <<KillAsSeen>>} :
        processGamelogUpdate(TRUE, content) =>
           LET fresh == parseGamelogContent(content, localPlayerName') IN
           /\ KillsAmong(gamelogSummary', fresh)
           /\ snapshot' # snapshot => KillsAmong(snapshot'.gamelog, fresh)]_vars

====
